---- MODULE Spec2Model ----
(***************************************************************************)
(* Model of the cryptographic operation runtime of OpenSC:                 *)
(*   - src/src/libopensc/pkcs15-sec.c : the dispatcher use_key and the     *)
(*     symmetric handlers sc_pkcs15_encrypt_sym / sc_pkcs15_decrypt_sym;   *)
(*   - src/src/pkcs11/pkcs11-global.c : the module lifecycle (C_Initialize,*)
(*     C_Finalize, C_WaitForSlotEvent) and its locking functions.          *)
(*                                                                         *)
(* These specifications share the module:                                  *)
(*   SpecKey  : one caller of use_key and of the symmetric handlers, with  *)
(*              a record of the interactions of each call (SpecKeyLive:    *)
(*              the same with a caller that keeps running);                *)
(*   SpecCard : threads calling use_key and the symmetric handlers on one  *)
(*              card;                                                      *)
(*   SpecMod  : threads calling the PKCS#11 entry points of one process    *)
(*              (and of its forked children);                              *)
(*   SpecOp   : one call of a key handler of pkcs15-sec.c (decipher,       *)
(*              derive, unwrap, wrap, compute_signature, encrypt_sym,      *)
(*              decrypt_sym) on a key and a card drawn from bounded sets;  *)
(*   SpecSlots: one caller of C_GetSlotList, C_GetSlotInfo, C_InitToken    *)
(*              and C_WaitForSlotEvent on the slot collection;             *)
(*   SpecInfo : one caller of C_GetSlotInfo at different clock readings;   *)
(*   SpecToken: threads in C_InitToken, C_OpenSession and C_CloseSession;  *)
(*   SpecFile : use_key, wrap and unwrap on keys whose paths are byte      *)
(*              strings;                                                   *)
(*   SpecEnv  : format_senv and sec_env_add_param building a security      *)
(*              environment;                                               *)
(*   SpecRace : threads in C_Finalize, C_GetSlotList and                   *)
(*              C_WaitForSlotEvent, with sc_pkcs11_lock and                *)
(*              sc_pkcs11_free_lock taken statement by statement.          *)
(***************************************************************************)
EXTENDS Integers, Sequences, FiniteSets, TLC

(***************************************************************************)
(* Bounds of the model.                                                    *)
(***************************************************************************)
NumThreads == 2
MaxPathLen == 3
MaxOutLen == 1
MaxKeyBits == 9
MaxBufLen == 2
NumReaders == 2
SlotsPerReader == 2
MaxSlots == 4
NumTokens == 2
MaxSessions == 2
SC_SEC_ENV_MAX_PARAMS == 2

Threads == 1..NumThreads
NoThread == 0

(***************************************************************************)
(* libopensc return codes (libopensc/errors.h). Negative = error;          *)
(* a primitive returns the number of bytes it produced (>= 0) on success.  *)
(***************************************************************************)
SC_SUCCESS == 0
SC_ERROR_CARD_CMD_FAILED == -1200
SC_ERROR_INCORRECT_PARAMETERS == -1205
SC_ERROR_SECURITY_STATUS_NOT_SATISFIED == -1211
SC_ERROR_WRONG_PADDING == -1222
SC_ERROR_NOT_ALLOWED == -1209
SC_ERROR_INVALID_ARGUMENTS == -1300
SC_ERROR_BUFFER_TOO_SMALL == -1303
SC_ERROR_INVALID_DATA == -1305
SC_ERROR_OUT_OF_MEMORY == -1404
SC_ERROR_TOO_MANY_OBJECTS == -1405
SC_ERROR_NOT_SUPPORTED == -1408

----------------------------------------------------------------------------
(***************************************************************************)
(* State of the card operations (pkcs15-sec.c).                            *)
(***************************************************************************)
VARIABLES
    pc,                     \* per thread: the interaction it is about to make
    fn,                     \* per thread: the function it is in
    keyfile,                \* per thread: what a pass does about the key file
    begin,                  \* per thread: outlen == NULL (symmetric begin call)
    r,                      \* per thread: local `r`
    revalidated_cached_pin, \* per thread: local flag of the retry loop
    card_lock,              \* owner of the device lock (sc_lock), NoThread if free
    tracing,                \* whether log, passres and ret are recorded
    log,                    \* per thread: interactions of the current/last call
    passres,                \* per thread: result of each finished pass of the call
    ret                     \* per thread: value returned by the last call

keyVars == <<pc, fn, keyfile, begin, r, revalidated_cached_pin, card_lock,
             tracing, log, passres, ret>>

VARIABLES
    revalres                \* per thread: what the last
                            \* sc_pkcs15_pincache_revalidate of a recorded call
                            \* returned

revalVars == <<revalres>>

(***************************************************************************)
(* State of the PKCS#11 module (pkcs11-global.c).                          *)
(***************************************************************************)
VARIABLES
    api_pc,          \* per caller: where it is inside a PKCS#11 entry point
    context,         \* `context` is non-NULL
    global_lock,     \* `global_lock`: "NULL" or "mutex"
    global_owner,    \* the caller holding the global mutex, NoThread if free
    global_locking,  \* `global_locking`: "NULL", "app" or "os"
    initialized_pid, \* `initialized_pid`
    current_pid,     \* getpid() of the process the callers run in
    in_finalize,     \* `in_finalize` is 1
    nesting,         \* `nesting`
    c_initialize_m,  \* the caller holding c_initialize_m, NoThread if free
    sessions,        \* the pids of the processes the open sessions were opened in
    virtual_slots,   \* the pids of the processes the slots were created in
    obs,             \* the call the observed caller is in
    done             \* the call the observed caller returned from in the last step

modVars == <<api_pc, context, global_lock, global_owner, global_locking,
             initialized_pid, current_pid, in_finalize, nesting, c_initialize_m,
             sessions, virtual_slots, obs, done>>

(***************************************************************************)
(* State of a caller of the operation handlers (pkcs15-sec.c), one call    *)
(* at a time.                                                              *)
(***************************************************************************)
VARIABLES
    key,     \* the key object the handlers are called with
    card,    \* what the card's algorithm table says about the key
    length,  \* the caller's size_t variable passed as poutlen / crgram_len
    last     \* the last handler call: its inputs, its result, the device calls

opVars == <<key, card, length, last>>

(***************************************************************************)
(* State of the slot collection of the module (pkcs11-global.c), seen by   *)
(* one caller at a time.                                                   *)
(***************************************************************************)
VARIABLES
    live,      \* the module is initialized (`context` is non-NULL)
    slotlist,  \* the list virtual_slots: reader, CKF_TOKEN_PRESENT, FLAG_SEEN
    returned,  \* the slot ids C_GetSlotList has returned since C_Initialize
    listed     \* the last call: its arguments, its result, the list it walked

slotVars == <<live, slotlist, returned, listed>>

(***************************************************************************)
(* The cache of C_GetSlotInfo (pkcs11-global.c:640-659).                   *)
(***************************************************************************)
VARIABLES
    slot_state_expires,  \* per slot id: `slot->slot_state_expires`, in ms
    polled               \* the last C_GetSlotInfo: its slot and whether that has
                         \* a reader, its clock, the expiry time it found,
                         \* whether it probed, its result

infoVars == <<slot_state_expires, polled>>

(***************************************************************************)
(* C_InitToken and the sessions (pkcs11-global.c:723-790), called by       *)
(* threads.                                                                *)
(***************************************************************************)
VARIABLES
    tok_pc,      \* per thread: where it is inside C_InitToken
    tok_slot,    \* per thread: the slot of its C_InitToken
    tok_rv,      \* per thread: local `rv`, "none" outside the call
    has_context, \* `context` is non-NULL
    has_lock,    \* `global_lock` is non-NULL
    lock_owner,  \* the thread holding global_lock, NoThread if free
    open,        \* the list sessions: per slot the number of its sessions
    labels       \* per slot: init_token has written the token

tokVars == <<tok_pc, tok_slot, tok_rv, has_context, has_lock, lock_owner, open,
             labels>>

(***************************************************************************)
(* The key file of a use_key call (pkcs15-sec.c:77-124, 142-154), with the *)
(* bytes of the paths.                                                     *)
(***************************************************************************)
VARIABLES
    resolved     \* the last use_key call: key path, file_app, what was selected,
                 \* senv->file_ref, the device calls and the result

fileVars == <<resolved>>

(***************************************************************************)
(* The security environment built by format_senv (pkcs15-sec.c:172-284)    *)
(* and sec_env_add_param (pkcs15-sec.c:37-53).                             *)
(***************************************************************************)
VARIABLES
    senv,        \* the sc_security_env_t: algorithm, key_size_bits, flags,
                 \* algorithm_ref, key_ref, params
    envcall      \* the last call on it: the function, its arguments, its
                 \* result, params before it, the parameters added so far

envVars == <<senv, envcall>>

(***************************************************************************)
(* The global lock between a call and C_Finalize (pkcs11-global.c:394-442, *)
(* 1009-1063).                                                             *)
(***************************************************************************)
VARIABLES
    lk_pc,          \* per thread: where it is inside its call
    lk_fn,          \* per thread: the function it is in, "none" outside
    lk_rv,          \* per thread: what its last call returned
    lk_context,     \* `context` is non-NULL
    lk_lists,       \* `sessions` and `virtual_slots`: "live" or "destroyed"
    lk_global_lock, \* `global_lock` is non-NULL
    lk_mutex,       \* the mutex: "unlocked", "locked" or "destroyed"
    lk_owner,       \* the thread that locked the mutex last and has not
                    \* unlocked it, NoThread if none
    lk_in_finalize, \* `in_finalize`
    lk_teardowns    \* how many times lines 418-436 have run

raceVars == <<lk_pc, lk_fn, lk_rv, lk_context, lk_lists, lk_global_lock, lk_mutex,
              lk_owner, lk_in_finalize, lk_teardowns>>

notCardVars == <<modVars, opVars, slotVars, infoVars, tokVars, fileVars, envVars, raceVars>>
notKeyVars == <<notCardVars, revalVars>>
notModVars == <<keyVars, revalVars, opVars, slotVars, infoVars, tokVars, fileVars, envVars, raceVars>>
notOpVars == <<keyVars, revalVars, modVars, slotVars, infoVars, tokVars, fileVars, envVars, raceVars>>
notSlotVars == <<keyVars, revalVars, modVars, opVars, infoVars, tokVars, fileVars, envVars, raceVars>>
notInfoVars == <<keyVars, revalVars, modVars, opVars, tokVars, fileVars, envVars, raceVars>>
notTokVars == <<keyVars, revalVars, modVars, opVars, slotVars, infoVars, fileVars, envVars, raceVars>>
notFileVars == <<keyVars, revalVars, modVars, opVars, slotVars, infoVars, tokVars, envVars, raceVars>>
notEnvVars == <<keyVars, revalVars, modVars, opVars, slotVars, infoVars, tokVars, fileVars, raceVars>>
notRaceVars == <<keyVars, revalVars, modVars, opVars, slotVars, infoVars, tokVars, fileVars, envVars>>

vars == <<keyVars, modVars, opVars, slotVars, infoVars, tokVars, fileVars, envVars,
          raceVars, revalVars>>

Paths == [len : 0..MaxPathLen, aid : BOOLEAN]
ObjClasses == {"PRKEY", "SKEY", "OTHER"}
SymFns == {"encrypt_sym", "decrypt_sym"}

\* Outcomes the device transport can report for a step.
DeviceErrors == {SC_ERROR_SECURITY_STATUS_NOT_SATISFIED, SC_ERROR_CARD_CMD_FAILED}
StepResults == {SC_SUCCESS} \cup DeviceErrors
PrimResults == (0..MaxOutLen) \cup DeviceErrors

Count(s, x) == Cardinality({i \in DOMAIN s : s[i] = x})

----------------------------------------------------------------------------
(***************************************************************************)
(* Helpers of pkcs15-sec.c.                                                *)
(***************************************************************************)

\* get_file_path: only private and secret key objects have a path.
get_file_path(cls) ==
    IF cls \in {"PRKEY", "SKEY"} THEN SC_SUCCESS ELSE SC_ERROR_INCORRECT_PARAMETERS

\* select_key_file, the shape analysis of the key path (before sc_select_file).
KeyFileShape(p, fa) ==
    IF p.len = 0 /\ p.aid THEN "sdo"
    ELSE IF p.len = 2 /\ fa THEN "relative"
    ELSE IF p.len > 2 THEN "absolute"
    ELSE "invalid"

\* the guard `path.len != 0 || path.aid.len != 0`
HasKeyFile(p) == p.len # 0 \/ p.aid

\* What each pass does about the key file of a key with path p: nothing,
\* fail on the shape of the path, or sc_select_file.
KeyFileStep(p, fa) ==
    IF ~HasKeyFile(p) THEN "none"
    ELSE IF KeyFileShape(p, fa) = "invalid" THEN "invalid"
    ELSE "device"

\* The inputs of a call, as far as the dispatcher looks at them.
KeyFileSteps == {KeyFileStep(p, fa) : p \in Paths, fa \in BOOLEAN}
PathLookups == {get_file_path(cls) : cls \in ObjClasses}

\* Outcomes of select_key_file: invalid shape fails without touching the device.
SelectResults(k) ==
    IF k = "invalid" THEN {SC_ERROR_INVALID_ARGUMENTS} ELSE StepResults

\* Outcomes of sc_pkcs15_pincache_revalidate.
RevalResults == {SC_SUCCESS} \cup DeviceErrors

\* Outcomes of a failing sc_lock.
LockErrors == {SC_ERROR_CARD_CMD_FAILED}

\* sc_lock: the device lock is a mutual-exclusion token.
sc_lock(t) == card_lock = NoThread /\ card_lock' = t

\* sc_unlock releases the device lock.
sc_unlock(t) == card_lock' = NoThread

\* The callers: one when the record of the calls is kept, else all threads.
Callers == IF tracing THEN {1} ELSE Threads

\* The record of the interactions of a call.
Logged(t, entries) ==
    log' = IF tracing THEN [log EXCEPT ![t] = @ \o entries] ELSE log

\* A pass ended with result x.
PassDone(t, x) ==
    passres' = IF tracing THEN [passres EXCEPT ![t] = Append(@, x)] ELSE passres

\* sc_pkcs15_pincache_revalidate returned x.
Revalidated(t, x) ==
    revalres' = IF tracing THEN [revalres EXCEPT ![t] = x] ELSE revalres

\* A call of f begins; g is the result of its get_file_path.
CallStarted(t, f, g) ==
    /\ fn' = [fn EXCEPT ![t] = IF g = SC_SUCCESS THEN f ELSE "none"]
    /\ log' = IF tracing THEN [log EXCEPT ![t] = <<f>>] ELSE log
    /\ revalidated_cached_pin' = [revalidated_cached_pin EXCEPT ![t] = FALSE]
    /\ passres' = IF tracing THEN [passres EXCEPT ![t] = <<>>] ELSE passres

\* The call returns x; its locals are gone.
Returned(t, x) ==
    /\ pc' = [pc EXCEPT ![t] = "idle"]
    /\ fn' = [fn EXCEPT ![t] = "none"]
    /\ keyfile' = [keyfile EXCEPT ![t] = "none"]
    /\ begin' = [begin EXCEPT ![t] = FALSE]
    /\ r' = [r EXCEPT ![t] = SC_SUCCESS]
    /\ revalidated_cached_pin' = [revalidated_cached_pin EXCEPT ![t] = FALSE]
    /\ ret' = IF tracing THEN [ret EXCEPT ![t] = x] ELSE ret

\* A retry loop without the "only re-validate once" test.
EndOfPass_NoLimit(rev, x) ==
    IF x = SC_ERROR_SECURITY_STATUS_NOT_SATISFIED THEN "reval" ELSE "out"

\* The end of a pass of the retry loop that left result x (use_key lines
\* 156-165): after the retry pass the loop is left; security-status-not-
\* satisfied on the first pass leads to the re-validation; else the loop is left.
EndOfPass(rev, x) ==
    IF rev THEN "out"
    ELSE IF x = SC_ERROR_SECURITY_STATUS_NOT_SATISFIED THEN "reval"
    ELSE "out"

----------------------------------------------------------------------------
(***************************************************************************)
(* use_key (pkcs15-sec.c:126-170).  pc values: "lock", "select", "setenv", *)
(* "prim", "reval", "unlock"; "idle" between calls.                        *)
(***************************************************************************)

\* The step after one that left result x and did not end the pass / did.
UseKeyGoto(t, next, x) ==
    /\ r' = [r EXCEPT ![t] = x]
    /\ IF next = "pass-ends"
       THEN /\ pc' = [pc EXCEPT ![t] =
                  IF EndOfPass(revalidated_cached_pin[t], x) = "out"
                  THEN "unlock" ELSE "reval"]
            /\ PassDone(t, x)
       ELSE /\ pc' = [pc EXCEPT ![t] = next]
            /\ UNCHANGED passres

\* lines 134-137: locals, get_file_path
UseKeyCall(t) ==
    /\ pc[t] = "idle" /\ t \in Callers
    /\ \E g \in PathLookups, k \in KeyFileSteps :
        /\ CallStarted(t, "use_key", g)
        /\ IF g # SC_SUCCESS
           THEN /\ pc' = [pc EXCEPT ![t] = "idle"]
                /\ ret' = IF tracing THEN [ret EXCEPT ![t] = g] ELSE ret
                /\ UNCHANGED keyfile
           ELSE /\ pc' = [pc EXCEPT ![t] = "lock"]
                /\ keyfile' = [keyfile EXCEPT ![t] = k]
                /\ UNCHANGED ret
    /\ UNCHANGED <<begin, r, card_lock, tracing>>
    /\ UNCHANGED notKeyVars

\* A dispatcher that goes on without taking the device lock.
UseKeyLock_NoLock(t) ==
    /\ pc[t] = "lock" /\ fn[t] = "use_key"
    /\ r' = [r EXCEPT ![t] = SC_SUCCESS]
    /\ Logged(t, <<"lock">>)
    /\ pc' = [pc EXCEPT ![t] = "select"]
    /\ UNCHANGED <<fn, keyfile, begin, revalidated_cached_pin, ret, card_lock,
                   tracing, passres>>
    /\ UNCHANGED notKeyVars

\* lines 139-140: sc_lock, return on failure
UseKeyLock(t) ==
    /\ pc[t] = "lock" /\ fn[t] = "use_key"
    /\ \/ /\ sc_lock(t)
          /\ r' = [r EXCEPT ![t] = SC_SUCCESS]
          /\ Logged(t, <<"lock">>)
          /\ pc' = [pc EXCEPT ![t] = "select"]
          /\ UNCHANGED <<fn, keyfile, begin, revalidated_cached_pin, ret>>
       \/ /\ \E e \in LockErrors : Returned(t, e)
          /\ UNCHANGED <<card_lock, log>>
    /\ UNCHANGED <<tracing, passres>>
    /\ UNCHANGED notKeyVars

\* lines 143-149: select the key file when the key has a path or an AID
UseKeySelect(t) ==
    /\ pc[t] = "select" /\ fn[t] = "use_key"
    /\ IF keyfile[t] # "none"
       THEN \E x \in SelectResults(keyfile[t]) :
              /\ UseKeyGoto(t, IF x = SC_SUCCESS THEN "setenv" ELSE "pass-ends", x)
              /\ Logged(t, IF keyfile[t] = "device"
                           THEN <<"pass", "select">> ELSE <<"pass">>)
       ELSE /\ UseKeyGoto(t, IF r[t] = SC_SUCCESS THEN "setenv" ELSE "pass-ends", r[t])
            /\ Logged(t, <<"pass">>)
    /\ UNCHANGED <<fn, keyfile, begin, revalidated_cached_pin, card_lock, tracing, ret>>
    /\ UNCHANGED notKeyVars

\* A dispatcher that invokes the primitive whatever sc_set_security_env answered.
UseKeySetEnv_NoTest(t) ==
    /\ pc[t] = "setenv" /\ fn[t] = "use_key"
    /\ \E x \in StepResults : UseKeyGoto(t, "prim", x)
    /\ Logged(t, <<"setenv">>)
    /\ UNCHANGED <<fn, keyfile, begin, revalidated_cached_pin, card_lock, tracing, ret>>
    /\ UNCHANGED notKeyVars

\* lines 150-151: sc_set_security_env
UseKeySetEnv(t) ==
    /\ pc[t] = "setenv" /\ fn[t] = "use_key"
    /\ \E x \in StepResults :
        UseKeyGoto(t, IF x = SC_SUCCESS THEN "prim" ELSE "pass-ends", x)
    /\ Logged(t, <<"setenv">>)
    /\ UNCHANGED <<fn, keyfile, begin, revalidated_cached_pin, card_lock, tracing, ret>>
    /\ UNCHANGED notKeyVars

\* lines 153-154: card_command
UseKeyPrim(t) ==
    /\ pc[t] = "prim" /\ fn[t] = "use_key"
    /\ \E x \in PrimResults : UseKeyGoto(t, "pass-ends", x)
    /\ Logged(t, <<"prim">>)
    /\ UNCHANGED <<fn, keyfile, begin, revalidated_cached_pin, card_lock, tracing, ret>>
    /\ UNCHANGED notKeyVars

\* A dispatcher that returns the re-validation error at once, lock still held.
UseKeyReval_EarlyReturn(t) ==
    /\ pc[t] = "reval" /\ fn[t] = "use_key"
    /\ \E x \in RevalResults :
        /\ Revalidated(t, x)
        /\ IF x < 0
           THEN Returned(t, x)
           ELSE
             /\ r' = [r EXCEPT ![t] = x]
             /\ pc' = [pc EXCEPT ![t] = "select"]
             /\ revalidated_cached_pin' =
                   [revalidated_cached_pin EXCEPT ![t] = TRUE]
             /\ UNCHANGED <<fn, keyfile, begin, ret>>
    /\ Logged(t, <<"reval">>)
    /\ UNCHANGED <<card_lock, tracing, passres>>
    /\ UNCHANGED notCardVars

\* lines 159-165: re-validate the cached PIN; on success go round once more
UseKeyReval(t) ==
    /\ pc[t] = "reval" /\ fn[t] = "use_key"
    /\ \E x \in RevalResults :
        /\ Revalidated(t, x)
        /\ r' = [r EXCEPT ![t] = x]
        /\ IF x < 0
           THEN /\ pc' = [pc EXCEPT ![t] = "unlock"]
                /\ UNCHANGED revalidated_cached_pin
           ELSE /\ pc' = [pc EXCEPT ![t] = "select"]
                /\ revalidated_cached_pin' =
                      [revalidated_cached_pin EXCEPT ![t] = TRUE]
    /\ Logged(t, <<"reval">>)
    /\ UNCHANGED <<fn, keyfile, begin, card_lock, tracing, passres, ret>>
    /\ UNCHANGED notCardVars

\* lines 167-169: sc_unlock and return r
UseKeyUnlock(t) ==
    /\ pc[t] = "unlock" /\ fn[t] = "use_key"
    /\ sc_unlock(t)
    /\ Logged(t, <<"unlock">>)
    /\ Returned(t, r[t])
    /\ UNCHANGED <<tracing, passres>>
    /\ UNCHANGED notKeyVars

----------------------------------------------------------------------------
(***************************************************************************)
(* sc_pkcs15_encrypt_sym (pkcs15-sec.c:844-879) and sc_pkcs15_decrypt_sym  *)
(* (pkcs15-sec.c:931-966): the same loop, without sc_lock / sc_unlock; the *)
(* selection and the environment push happen only when outlen == NULL.     *)
(***************************************************************************)

\* A loop that starts every pass with the key file and the environment.
SymPassStart_Always(b, k) ==
    IF k # "none" THEN "select" ELSE "setenv"

\* First step of a pass of the symmetric loop: `r = SC_SUCCESS` (line 849),
\* then the key file, the environment or directly the primitive.
SymPassStart(b, k) ==
    IF ~b THEN "prim" ELSE IF k # "none" THEN "select" ELSE "setenv"

\* The step after one that left result x and did not end the pass / did
\* (lines 868-879: leaving the loop returns r).
SymGoto(t, next, x, entries) ==
    IF next = "pass-ends"
    THEN /\ PassDone(t, x)
         /\ Logged(t, entries)
         /\ IF EndOfPass(revalidated_cached_pin[t], x) = "out"
            THEN Returned(t, x)
            ELSE /\ pc' = [pc EXCEPT ![t] = "reval"]
                 /\ r' = [r EXCEPT ![t] = x]
                 /\ UNCHANGED <<fn, keyfile, begin, revalidated_cached_pin, ret>>
    ELSE /\ pc' = [pc EXCEPT ![t] = next]
         /\ r' = [r EXCEPT ![t] = x]
         /\ Logged(t, entries)
         /\ UNCHANGED <<fn, keyfile, begin, revalidated_cached_pin, passres, ret>>

\* lines 844-846: get_file_path; the sc_lock() call is absent, only its
\* error test on the unchanged r (SC_SUCCESS after sc_get_encoding_flags)
SymCall(t) ==
    /\ pc[t] = "idle" /\ t \in Callers
    /\ \E f \in SymFns, g \in PathLookups, k \in KeyFileSteps, b \in BOOLEAN :
        /\ CallStarted(t, f, g)
        /\ IF g # SC_SUCCESS
           THEN /\ pc' = [pc EXCEPT ![t] = "idle"]
                /\ ret' = IF tracing THEN [ret EXCEPT ![t] = g] ELSE ret
                /\ UNCHANGED <<keyfile, begin>>
           ELSE /\ pc' = [pc EXCEPT ![t] = SymPassStart(b, k)]
                /\ keyfile' = [keyfile EXCEPT ![t] = IF b THEN k ELSE "none"]
                /\ begin' = [begin EXCEPT ![t] = b]
                /\ UNCHANGED ret
    /\ UNCHANGED <<r, card_lock, tracing>>
    /\ UNCHANGED notKeyVars

\* lines 853-857: select_key_file on the begin call
SymSelect(t) ==
    /\ pc[t] = "select" /\ fn[t] \in SymFns
    /\ \E x \in SelectResults(keyfile[t]) :
        SymGoto(t, IF x = SC_SUCCESS THEN "setenv" ELSE "pass-ends", x,
                IF keyfile[t] = "device" THEN <<"select">> ELSE <<>>)
    /\ UNCHANGED <<card_lock, tracing>>
    /\ UNCHANGED notKeyVars

\* lines 858-862: sc_set_security_env on the begin call
SymSetEnv(t) ==
    /\ pc[t] = "setenv" /\ fn[t] \in SymFns
    /\ \E x \in StepResults :
        SymGoto(t, IF x = SC_SUCCESS THEN "prim" ELSE "pass-ends", x, <<"setenv">>)
    /\ UNCHANGED <<card_lock, tracing>>
    /\ UNCHANGED notKeyVars

\* lines 865-866: sc_encrypt_sym / sc_decrypt_sym
SymPrim(t) ==
    /\ pc[t] = "prim" /\ fn[t] \in SymFns
    /\ \E x \in PrimResults : SymGoto(t, "pass-ends", x, <<"prim">>)
    /\ UNCHANGED <<card_lock, tracing>>
    /\ UNCHANGED notKeyVars

\* lines 871-877: re-validate the cached PIN; on success go round once more
SymReval(t) ==
    /\ pc[t] = "reval" /\ fn[t] \in SymFns
    /\ \E x \in RevalResults :
        /\ Revalidated(t, x)
        /\ IF x < 0
           THEN
             /\ Returned(t, x)
             /\ Logged(t, <<"reval">>)
           ELSE
             /\ pc' = [pc EXCEPT ![t] = SymPassStart(begin[t], keyfile[t])]
             /\ r' = [r EXCEPT ![t] = x]
             /\ revalidated_cached_pin' = [revalidated_cached_pin EXCEPT ![t] = TRUE]
             /\ Logged(t, <<"reval">>)
             /\ UNCHANGED <<fn, keyfile, begin, ret>>
    /\ UNCHANGED <<card_lock, tracing, passres>>
    /\ UNCHANGED notCardVars

----------------------------------------------------------------------------
(***************************************************************************)
(* The PKCS#11 module (pkcs11-global.c), POSIX build with pthread locking  *)
(* and a pcsc-lite that supports blocking waits (PCSCLITE_GOOD).           *)
(* The application forks only between calls; the callers of the model are  *)
(* then the threads of the child.                                          *)
(***************************************************************************)
NumCallers == 3
MaxForks == 1

Procs == 1..NumCallers
Pids == 1..(MaxForks + 1)
NoPid == -1

\* The caller whose calls are recorded in obs and done.
Observed == CHOOSE t \in Procs : \A u \in Procs : t <= u

\* The mutex callbacks of CK_C_INITIALIZE_ARGS that are set: all four, some
\* of them, none.
Callbacks == {"all", "some", "none"}

\* C_Initialize arguments: pInitArgs == NULL, or a CK_C_INITIALIZE_ARGS with
\* pReserved set or not, all four mutex callbacks or not, CKF_OS_LOCKING_OK or not.
NullArgs == [isnull |-> TRUE, pReserved |-> FALSE, funcs |-> "none", os_ok |-> FALSE]
InitArgs == {NullArgs} \cup
            [isnull : {FALSE}, pReserved : BOOLEAN, funcs : Callbacks, os_ok : BOOLEAN]

\* default_mutex_funcs with HAVE_OS_LOCKING
default_mutex_funcs == "os"

\* The positions of a caller inside C_Initialize.
\* The positions inside the initialization proper (lines 339-391).
InitBodyPcs == {"I_init", "I_init_app", "I_deadlock", "I_lists", "I_abort"}

\* The module state a call can be compared with.
Snapshot ==
    [context |-> context, global_lock |-> global_lock,
     global_locking |-> global_locking, sessions |-> sessions,
     virtual_slots |-> virtual_slots, nesting |-> nesting,
     in_finalize |-> in_finalize, forked |-> initialized_pid # current_pid]

NoEntry ==
    [context |-> FALSE, global_lock |-> "NULL", global_locking |-> "NULL",
     sessions |-> {}, virtual_slots |-> {}, nesting |-> 0, in_finalize |-> FALSE,
     forked |-> FALSE]

\* The record of a call of the observed caller: the entry point, the module
\* state at entry and the steps of the call (both kept only while no other
\* caller is inside the module), whether another caller was inside the
\* initialization proper at entry, whether another caller finalized the module during a wait.
NoObs == [op |-> "none", entry |-> NoEntry, log |-> <<>>, alone |-> FALSE,
          initializing |-> FALSE, finalized |-> FALSE]
NoCall == [op |-> "none", rv |-> "none", entry |-> NoEntry, log |-> <<>>,
           alone |-> FALSE, initializing |-> FALSE, finalized |-> FALSE]

OthersIdle(t) == \A u \in Procs \ {t} : api_pc[u] = "idle"

\* Another caller enters the module during the observed call.
Disturbed(o) ==
    IF o.op = "none" THEN o
    ELSE [o EXCEPT !.alone = FALSE, !.entry = NoEntry, !.log = <<>>]

\* The record of a call of op that begins now.
Entered(t, op) ==
    [op |-> op,
     entry |-> IF OthersIdle(t) THEN Snapshot ELSE NoEntry,
     log |-> <<>>,
     alone |-> OthersIdle(t),
     initializing |-> \E u \in Procs \ {t} : api_pc[u] \in InitBodyPcs,
     finalized |-> FALSE]

\* The record o of a call, which returns rv after the steps `entries`.
Left(o, rv, entries) ==
    [op |-> o.op, rv |-> rv, entry |-> o.entry,
     log |-> IF o.alone THEN o.log \o entries ELSE <<>>,
     alone |-> o.alone, initializing |-> o.initializing,
     finalized |-> o.finalized]

\* Caller t enters the entry point op.
GhostStart(t, op) ==
    /\ done' = NoCall
    /\ obs' = IF t = Observed THEN Entered(t, op) ELSE Disturbed(obs)

\* Caller t makes a step inside its call.
GhostStep(t, entries) ==
    /\ done' = NoCall
    /\ obs' = IF t = Observed /\ obs.alone
              THEN [obs EXCEPT !.log = @ \o entries] ELSE obs

\* Caller t returns rv from its call.
GhostReturn(t, rv, entries) ==
    /\ done' = IF t = Observed THEN Left(obs, rv, entries) ELSE NoCall
    /\ obs' = IF t = Observed THEN NoObs ELSE obs

\* Caller t enters op and returns rv in the same step.
GhostWhole(t, op, rv, entries) ==
    /\ done' = IF t = Observed THEN Left(Entered(t, op), rv, entries) ELSE NoCall
    /\ obs' = IF t = Observed THEN NoObs ELSE Disturbed(obs)

ApiReturn(t, rv, entries) ==
    /\ api_pc' = [api_pc EXCEPT ![t] = "idle"]
    /\ GhostReturn(t, rv, entries)

ApiGoto(t, next, entries) ==
    /\ api_pc' = [api_pc EXCEPT ![t] = next]
    /\ GhostStep(t, entries)

----------------------------------------------------------------------------
(***************************************************************************)
(* Locking functions (pkcs11-global.c:955-1063).                           *)
(***************************************************************************)

\* lines 976-995: the strategy chosen from the callbacks and the flag
\* CKF_OS_LOCKING_OK.
Strategy(a) ==
    LET applock == a.funcs = "all"
        oslock == a.os_ok
    IN  IF applock /\ oslock THEN "app"
        ELSE IF ~applock /\ oslock THEN default_mutex_funcs
        ELSE IF applock /\ ~oslock THEN "app"
        ELSE default_mutex_funcs

\* A negotiation that prefers the built-in primitives when the flag allows them.
sc_pkcs11_init_lock_OsFirst(a, createFails) ==
    IF global_lock # "NULL" \/ a.isnull
    THEN [rv |-> "CKR_OK", lock |-> global_lock, locking |-> global_locking]
    ELSE IF a.pReserved
    THEN [rv |-> "CKR_ARGUMENTS_BAD", lock |-> global_lock, locking |-> global_locking]
    ELSE LET strategy == IF a.os_ok THEN default_mutex_funcs ELSE Strategy(a)
         IN  IF createFails
             THEN [rv |-> IF strategy = "app" THEN "CKR_HOST_MEMORY"
                                              ELSE "CKR_GENERAL_ERROR",
                   lock |-> "NULL", locking |-> strategy]
             ELSE [rv |-> "CKR_OK", lock |-> "mutex", locking |-> strategy]

\* sc_pkcs11_init_lock(args); createFails: CreateMutex reports an error.
\* Gives the return value and the new global_lock / global_locking.
sc_pkcs11_init_lock(a, createFails) ==
    IF global_lock # "NULL" \/ a.isnull
    THEN [rv |-> "CKR_OK", lock |-> global_lock, locking |-> global_locking]
    ELSE IF a.pReserved
    THEN [rv |-> "CKR_ARGUMENTS_BAD", lock |-> global_lock, locking |-> global_locking]
    ELSE LET strategy == Strategy(a)
         IN  IF createFails
             THEN [rv |-> IF strategy = "app" THEN "CKR_HOST_MEMORY"
                                              ELSE "CKR_GENERAL_ERROR",
                   lock |-> "NULL", locking |-> strategy]
             ELSE [rv |-> "CKR_OK", lock |-> "mutex", locking |-> strategy]

\* init_lock calls CreateMutex for these arguments.
CreatesMutex(a) == global_lock = "NULL" /\ ~a.isnull /\ ~a.pReserved

\* sc_pkcs11_lock does not have to wait.
LockFree == (context /\ global_lock = "mutex") => global_owner = NoThread

\* sc_pkcs11_lock: its return value, and the owner of the mutex after it.
sc_pkcs11_lock_rv == IF context THEN "CKR_OK" ELSE "CKR_CRYPTOKI_NOT_INITIALIZED"
sc_pkcs11_lock(t) ==
    IF context /\ global_lock = "mutex" THEN t ELSE global_owner

\* sc_pkcs11_free_lock on the given global_lock / global_locking.
sc_pkcs11_free_lock(lock, locking) ==
    IF lock = "NULL"
    THEN [lock |-> lock, locking |-> locking]
    ELSE [lock |-> "NULL", locking |-> "NULL"]

----------------------------------------------------------------------------
(***************************************************************************)
(* C_Initialize (pkcs11-global.c:290-392).  Positions: "I_fork" before the *)
(* fork block, "I_nest" before the nesting guard, "I_check" before the     *)
(* already-initialized test, "I_init" / "I_init_app" inside the part run   *)
(* under c_initialize_m, "I_lists" before the lists are created,           *)
(* "I_deadlock" in a nested call                                           *)
(***************************************************************************)

\* line 290: the call is made
InitCall(t) ==
    /\ api_pc[t] = "idle"
    /\ api_pc' = [api_pc EXCEPT ![t] = "I_fork"]
    /\ GhostStart(t, "C_Initialize")
    /\ UNCHANGED <<context, global_lock, global_owner, global_locking,
                   initialized_pid, current_pid, in_finalize, nesting,
                   c_initialize_m, sessions, virtual_slots>>
    /\ UNCHANGED notModVars

\* A fork block that records the pid without finalizing.
InitFork_NoFinalize(t) ==
    /\ api_pc[t] = "I_fork"
    /\ c_initialize_m = NoThread
    /\ ApiGoto(t, "I_nest", <<"pid">>)
    /\ initialized_pid' = current_pid
    /\ in_finalize' = FALSE
    /\ UNCHANGED <<context, sessions, virtual_slots, global_lock, global_locking,
                   global_owner, current_pid, nesting, c_initialize_m>>
    /\ UNCHANGED notModVars

\* lines 299-313: under c_initialize_m, compare the pids; on a mismatch set
\* the terminate flag and C_Finalize(NULL); record the pid, clear in_finalize
InitFork(t) ==
    /\ api_pc[t] = "I_fork"
    /\ c_initialize_m = NoThread
    /\ IF current_pid # initialized_pid /\ context
       THEN /\ LockFree
            /\ context' = FALSE
            /\ sessions' = {}
            /\ virtual_slots' = {}
            /\ global_lock' = sc_pkcs11_free_lock(global_lock, global_locking).lock
            /\ global_locking' = sc_pkcs11_free_lock(global_lock, global_locking).locking
            /\ global_owner' = NoThread
            /\ ApiGoto(t, "I_nest", <<"terminate", "finalize", "pid">>)
       ELSE /\ ApiGoto(t, "I_nest", <<"pid">>)
            /\ UNCHANGED <<context, sessions, virtual_slots, global_lock,
                           global_locking, global_owner>>
    /\ initialized_pid' = current_pid
    /\ in_finalize' = FALSE
    /\ UNCHANGED <<current_pid, nesting, c_initialize_m>>
    /\ UNCHANGED notModVars

\* lines 315-323: the nesting guard
InitNest(t) ==
    /\ api_pc[t] = "I_nest"
    /\ c_initialize_m = NoThread
    /\ IF nesting + 1 > 1
       THEN /\ ApiReturn(t, "CKR_GENERAL_ERROR", <<"nesting">>)
            /\ UNCHANGED nesting
       ELSE /\ nesting' = nesting + 1
            /\ ApiGoto(t, "I_check", <<>>)
    /\ UNCHANGED <<context, global_lock, global_owner, global_locking,
                   initialized_pid, current_pid, in_finalize, c_initialize_m,
                   sessions, virtual_slots>>
    /\ UNCHANGED notModVars

\* A C_Initialize without the `context != NULL` test.
InitCheck_NoTest(t) ==
    /\ api_pc[t] = "I_check"
    /\ c_initialize_m = NoThread
    /\ c_initialize_m' = t
    /\ ApiGoto(t, "I_init", <<>>)
    /\ UNCHANGED <<context, global_lock, global_owner, global_locking,
                   initialized_pid, current_pid, in_finalize, nesting, sessions,
                   virtual_slots>>
    /\ UNCHANGED notModVars

\* lines 325-337: under c_initialize_m, `context != NULL` logs under the
\* global lock and returns "already initialized"; else the call goes on
InitCheck(t) ==
    /\ api_pc[t] = "I_check"
    /\ c_initialize_m = NoThread
    /\ IF context
       THEN /\ LockFree
            /\ nesting' = nesting - 1
            /\ ApiReturn(t, "CKR_CRYPTOKI_ALREADY_INITIALIZED", <<"already">>)
            /\ UNCHANGED c_initialize_m
       ELSE /\ c_initialize_m' = t
            /\ ApiGoto(t, "I_init", <<>>)
            /\ UNCHANGED nesting
    /\ UNCHANGED <<context, global_lock, global_owner, global_locking,
                   initialized_pid, current_pid, in_finalize, sessions,
                   virtual_slots>>
    /\ UNCHANGED notModVars

\* The step at which an initialization with outcome `fail` ends, and its result.
InitResult(lk, fail) ==
    IF lk.rv # "CKR_OK" THEN [step |-> "init_lock", rv |-> lk.rv]
    ELSE IF fail = "context" THEN [step |-> "context", rv |-> "CKR_GENERAL_ERROR"]
    ELSE IF fail \in {"sessions", "slots"} THEN [step |-> fail, rv |-> "CKR_HOST_MEMORY"]
    ELSE [step |-> "detect", rv |-> "CKR_OK"]

\* The arguments of a C_Initialize, as recorded in the steps of the call.
ArgsLog(a) ==
    IF a.isnull THEN <<"args:NULL">>
    ELSE IF a.pReserved THEN <<"args:reserved">>
    ELSE <<"args:set",
           IF a.funcs = "all" THEN "callbacks:all"
           ELSE IF a.funcs = "some" THEN "callbacks:some" ELSE "callbacks:none",
           IF a.os_ok THEN "os_ok" ELSE "os_not_ok">>

\* card_detect_all: creates the slots of the readers that are present.
card_detect_all(slots, readers) ==
    IF readers THEN slots \cup {current_pid} ELSE slots

\* lines 339-353: sc_pkcs11_init_lock and sc_context_create; a failure is
\* handled at `out` (lines 374-391), which releases the lock; otherwise the
\* module has a context and a global lock, and the call goes on to the lists
InitInit(t) ==
    /\ api_pc[t] \in {"I_init", "I_init_app"}
    /\ \E a \in InitArgs, fail \in {"none", "mutex", "context"} :
        /\ fail = "mutex" => CreatesMutex(a)
        /\ api_pc[t] = "I_init_app" => (CreatesMutex(a) /\ a.funcs = "all")
        /\ LET lk == sc_pkcs11_init_lock(a, fail = "mutex")
               res == InitResult(lk, fail)
               fl == sc_pkcs11_free_lock(lk.lock, lk.locking)
           IN  IF res.rv = "CKR_OK"
               THEN /\ context' = TRUE
                    /\ global_lock' = lk.lock
                    /\ global_locking' = lk.locking
                    /\ ApiGoto(t, "I_lists", <<"init">> \o ArgsLog(a))
                    /\ UNCHANGED <<nesting, c_initialize_m>>
               ELSE /\ context' = FALSE
                    /\ global_lock' = fl.lock
                    /\ global_locking' = fl.locking
                    /\ ApiReturn(t, res.rv, <<"init">> \o ArgsLog(a) \o <<res.step>>)
                    /\ nesting' = nesting - 1
                    /\ c_initialize_m' = NoThread
    /\ UNCHANGED <<global_owner, initialized_pid, current_pid, in_finalize,
                   sessions, virtual_slots>>
    /\ UNCHANGED notModVars

\* lines 355-391: load_pkcs11_parameters, the two list_init, card_detect_all,
\* still under c_initialize_m and without the global lock; at `out` a failure
\* releases the context and destroys the global lock.  When a C_Finalize of
\* another thread has released the context in between, card_detect_all works
\* on a NULL context, which is undefined: the call never returns ("I_abort"),
\* or finds no reader and returns CKR_OK.
InitLists(t) ==
    /\ api_pc[t] = "I_lists"
    /\ \E fail \in {"none", "sessions", "slots"}, readers \in BOOLEAN :
        /\ readers => (fail = "none" /\ context)
        /\ LET res == InitResult([rv |-> "CKR_OK"], fail)
               fl == sc_pkcs11_free_lock(global_lock, global_locking)
           IN  IF res.rv # "CKR_OK"
               THEN /\ context' = FALSE
                    /\ global_lock' = fl.lock
                    /\ global_locking' = fl.locking
                    /\ global_owner' = NoThread
                    /\ ApiReturn(t, res.rv, <<res.step>>)
                    /\ nesting' = nesting - 1
                    /\ c_initialize_m' = NoThread
                    /\ UNCHANGED <<sessions, virtual_slots>>
               ELSE /\ sessions' = {}
                    /\ virtual_slots' = card_detect_all({}, readers)
                    /\ UNCHANGED <<context, global_lock, global_locking, global_owner>>
                    /\ \/ /\ ApiReturn(t, res.rv, <<res.step>>)
                          /\ nesting' = nesting - 1
                          /\ c_initialize_m' = NoThread
                       \/ /\ ~context
                          /\ ApiGoto(t, "I_abort", <<>>)
                          /\ UNCHANGED <<nesting, c_initialize_m>>
    /\ UNCHANGED <<initialized_pid, current_pid, in_finalize>>
    /\ UNCHANGED notModVars

\* line 339 with an application CreateMutex that calls C_Initialize again:
\* the nested call reaches C_INITIALIZE_M_LOCK (line 299) owning the mutex.
\* Relocking the default pthread mutex is undefined: the nested call either
\* never returns ("I_deadlock"), or goes on as if it had locked (lines
\* 299-323), ends in the nesting guard with CKR_GENERAL_ERROR and leaves
\* c_initialize_m unlocked.
InitNested(t) ==
    /\ api_pc[t] = "I_init"
    /\ global_lock = "NULL"
    /\ \/ /\ ApiGoto(t, "I_deadlock", <<"nested">>)
          /\ UNCHANGED <<initialized_pid, in_finalize, c_initialize_m>>
       \/ /\ ApiGoto(t, "I_init_app", <<"nested", "CKR_GENERAL_ERROR">>)
          /\ initialized_pid' = current_pid
          /\ in_finalize' = FALSE
          /\ c_initialize_m' = NoThread
    /\ UNCHANGED <<context, global_lock, global_owner, global_locking,
                   current_pid, nesting, sessions, virtual_slots>>
    /\ UNCHANGED notModVars

----------------------------------------------------------------------------
(***************************************************************************)
(* C_Finalize (pkcs11-global.c:394-442).  Position: "F_teardown" holding   *)
(* the global lock.                                                        *)
(***************************************************************************)

\* A C_Finalize that announces the finalization before its tests.
FinCall_FlagFirst(t) ==
    /\ api_pc[t] = "idle"
    /\ LockFree
    /\ in_finalize' = TRUE
    /\ \E pReserved \in BOOLEAN :
        IF pReserved
        THEN /\ GhostWhole(t, "C_Finalize", "CKR_ARGUMENTS_BAD", <<"reserved">>)
             /\ UNCHANGED <<api_pc, global_owner>>
        ELSE IF ~context
        THEN /\ GhostWhole(t, "C_Finalize", "CKR_CRYPTOKI_NOT_INITIALIZED", <<>>)
             /\ UNCHANGED <<api_pc, global_owner>>
        ELSE /\ GhostStart(t, "C_Finalize")
             /\ global_owner' = sc_pkcs11_lock(t)
             /\ api_pc' = [api_pc EXCEPT ![t] = "F_teardown"]
    /\ UNCHANGED <<context, global_lock, global_locking, initialized_pid,
                   current_pid, nesting, c_initialize_m, sessions, virtual_slots>>
    /\ UNCHANGED notModVars

\* lines 401-413: the reserved argument, sc_notify_close, `context == NULL`,
\* sc_pkcs11_lock
FinCall(t) ==
    /\ api_pc[t] = "idle"
    /\ LockFree
    /\ \E pReserved \in BOOLEAN :
        IF pReserved
        THEN /\ GhostWhole(t, "C_Finalize", "CKR_ARGUMENTS_BAD", <<"reserved">>)
             /\ UNCHANGED <<api_pc, global_owner>>
        ELSE IF ~context
        THEN /\ GhostWhole(t, "C_Finalize", "CKR_CRYPTOKI_NOT_INITIALIZED", <<>>)
             /\ UNCHANGED <<api_pc, global_owner>>
        ELSE /\ GhostStart(t, "C_Finalize")
             /\ global_owner' = sc_pkcs11_lock(t)
             /\ api_pc' = [api_pc EXCEPT ![t] = "F_teardown"]
    /\ UNCHANGED <<context, global_lock, global_locking, initialized_pid,
                   current_pid, in_finalize, nesting, c_initialize_m, sessions,
                   virtual_slots>>
    /\ UNCHANGED notModVars

\* The steps of lines 418-439, in the order of the code.
FinSteps ==
    <<"in_finalize", "sc_cancel", "card_removed", "free_sessions", "free_slots",
      "release_context", "free_lock">>

\* A C_Finalize that leaves the slots in virtual_slots.
FinTeardown_KeepSlots(t) ==
    /\ api_pc[t] = "F_teardown"
    /\ in_finalize' = TRUE
    /\ sessions' = {}
    /\ context' = FALSE
    /\ global_lock' = sc_pkcs11_free_lock(global_lock, global_locking).lock
    /\ global_locking' = sc_pkcs11_free_lock(global_lock, global_locking).locking
    /\ global_owner' = NoThread
    /\ api_pc' = [api_pc EXCEPT ![t] = "idle"]
    /\ IF t = Observed
       THEN GhostReturn(t, "CKR_OK", FinSteps)
       ELSE /\ done' = NoCall
            /\ obs' = IF api_pc[Observed] = "W_wait"
                      THEN [obs EXCEPT !.finalized = TRUE] ELSE obs
    /\ UNCHANGED <<initialized_pid, current_pid, nesting, c_initialize_m, virtual_slots>>
    /\ UNCHANGED notModVars

\* lines 418-441: in_finalize = 1, sc_cancel, the cards, the sessions and the
\* slots are removed, the context is released, sc_pkcs11_free_lock
FinTeardown(t) ==
    /\ api_pc[t] = "F_teardown"
    /\ in_finalize' = TRUE
    /\ sessions' = {}
    /\ virtual_slots' = {}
    /\ context' = FALSE
    /\ global_lock' = sc_pkcs11_free_lock(global_lock, global_locking).lock
    /\ global_locking' = sc_pkcs11_free_lock(global_lock, global_locking).locking
    /\ global_owner' = NoThread
    /\ api_pc' = [api_pc EXCEPT ![t] = "idle"]
    /\ IF t = Observed
       THEN GhostReturn(t, "CKR_OK", FinSteps)
       ELSE /\ done' = NoCall
            /\ obs' = IF api_pc[Observed] = "W_wait"
                      THEN [obs EXCEPT !.finalized = TRUE] ELSE obs
    /\ UNCHANGED <<initialized_pid, current_pid, nesting, c_initialize_m>>
    /\ UNCHANGED notModVars

----------------------------------------------------------------------------
(***************************************************************************)
(* C_WaitForSlotEvent (pkcs11-global.c:792-859).  Position: "W_wait" in    *)
(* sc_wait_for_event without the global lock.                              *)
(***************************************************************************)

\* the end of slot_find_changed under the lock: return at `out`, or wait
WaitOutcomes == {"found", "none"}

\* lines 803-825: the reserved argument, sc_pkcs11_lock, slot_find_changed;
\* return at `out` or unlock and wait
WaitCall(t) ==
    /\ api_pc[t] = "idle"
    /\ LockFree
    /\ \E pReserved \in BOOLEAN, block \in BOOLEAN, found \in WaitOutcomes :
        IF pReserved
        THEN /\ GhostWhole(t, "C_WaitForSlotEvent", "CKR_ARGUMENTS_BAD", <<>>)
             /\ UNCHANGED api_pc
        ELSE IF sc_pkcs11_lock_rv # "CKR_OK"
        THEN /\ GhostWhole(t, "C_WaitForSlotEvent", sc_pkcs11_lock_rv, <<>>)
             /\ UNCHANGED api_pc
        ELSE IF found = "found" \/ ~block
        THEN /\ GhostWhole(t, "C_WaitForSlotEvent",
                           IF found = "found" THEN "CKR_OK" ELSE "CKR_NO_EVENT",
                           <<"lock", "unlock">>)
             /\ UNCHANGED api_pc
        ELSE /\ GhostStart(t, "C_WaitForSlotEvent")
             /\ api_pc' = [api_pc EXCEPT ![t] = "W_wait"]
    /\ UNCHANGED <<context, global_lock, global_owner, global_locking,
                   initialized_pid, current_pid, in_finalize, nesting,
                   c_initialize_m, sessions, virtual_slots>>
    /\ UNCHANGED notModVars

\* lines 826-858: sc_wait_for_event returns (event, error or cancel);
\* in_finalize set returns "not initialized"; else sc_pkcs11_lock again, and
\* an error of the wait or a changed slot returns at `out`, else `again`
WaitWake(t) ==
    /\ api_pc[t] = "W_wait"
    /\ IF in_finalize
       THEN ApiReturn(t, "CKR_CRYPTOKI_NOT_INITIALIZED", <<"woken">>)
       ELSE /\ LockFree
            /\ IF sc_pkcs11_lock_rv # "CKR_OK"
               THEN ApiReturn(t, sc_pkcs11_lock_rv, <<"woken">>)
               ELSE \E x \in {"error", "found", "again"} :
                      IF x = "again"
                      THEN ApiGoto(t, "W_wait", <<>>)
                      ELSE ApiReturn(t, IF x = "found" THEN "CKR_OK"
                                                       ELSE "CKR_GENERAL_ERROR",
                                     <<"woken", "lock", "unlock">>)
    /\ UNCHANGED <<context, global_lock, global_owner, global_locking,
                   initialized_pid, current_pid, in_finalize, nesting,
                   c_initialize_m, sessions, virtual_slots>>
    /\ UNCHANGED notModVars

----------------------------------------------------------------------------
(***************************************************************************)
(* The environment of the module.                                          *)
(***************************************************************************)

\* C_OpenSession on a slot of the module: one more session in `sessions`.
OpenSession(t) ==
    /\ api_pc[t] = "idle"
    /\ context /\ LockFree
    /\ virtual_slots # {}
    /\ sessions' = sessions \cup {current_pid}
    /\ GhostWhole(t, "C_OpenSession", "CKR_OK", <<"lock", "unlock">>)
    /\ UNCHANGED <<api_pc, context, global_lock, global_owner, global_locking,
                   initialized_pid, current_pid, in_finalize, nesting,
                   c_initialize_m, virtual_slots>>
    /\ UNCHANGED notModVars

\* fork(): the callers go on in the child, which has a new pid and a copy of
\* the module state.
Fork ==
    /\ \A t \in Procs : api_pc[t] = "idle"
    /\ current_pid < MaxForks + 1
    /\ current_pid' = current_pid + 1
    /\ done' = NoCall
    /\ UNCHANGED <<api_pc, context, global_lock, global_owner, global_locking,
                   initialized_pid, in_finalize, nesting, c_initialize_m,
                   sessions, virtual_slots, obs>>
    /\ UNCHANGED notModVars

\* The module as loaded: the initial values of the file-scope variables.
ModLoaded ==
    /\ api_pc = [t \in Procs |-> "idle"]
    /\ context = FALSE
    /\ global_lock = "NULL"
    /\ global_owner = NoThread
    /\ global_locking = "NULL"
    /\ initialized_pid = NoPid
    /\ current_pid = 1
    /\ in_finalize = FALSE
    /\ nesting = 0
    /\ c_initialize_m = NoThread
    /\ sessions = {}
    /\ virtual_slots = {}
    /\ obs = NoObs
    /\ done = NoCall

\* No call on the slot collection was made yet.
NoList ==
    [op |-> "none", rv |-> "CKR_OK", filter |-> FALSE, sizeonly |-> FALSE,
     found |-> <<>>, at |-> <<>>]

\* The slot collection is not looked at while the other specifications run.
SlotsIdle ==
    /\ live = FALSE
    /\ slotlist = <<>>
    /\ returned = {}
    /\ listed = NoList

\* No C_GetSlotInfo was made yet.
NoPoll ==
    [slot |-> 0, reader |-> FALSE, now |-> 0, expires |-> 0, probed |-> FALSE,
     rv |-> "none"]

\* The slots as calloc leaves them, no call made.
InfoIdle ==
    /\ slot_state_expires = [i \in 1..MaxSlots |-> 0]
    /\ polled = NoPoll

\* No C_InitToken is made while the other specifications run.
TokIdle ==
    /\ tok_pc = [t \in Threads |-> "idle"]
    /\ tok_slot = [t \in Threads |-> 0]
    /\ tok_rv = [t \in Threads |-> "none"]
    /\ has_context = FALSE
    /\ has_lock = FALSE
    /\ lock_owner = NoThread
    /\ open = [i \in 1..NumTokens |-> 0]
    /\ labels = [i \in 1..NumTokens |-> FALSE]

\* An sc_path_t: the bytes of `value` (`len` is their number) and whether
\* an AID is set (aid.len != 0).
NoPath == [value |-> <<>>, aid |-> FALSE]

\* No use_key call was made yet.
NoResolve ==
    [op |-> "none", orig |-> NoPath, app |-> FALSE, r |-> SC_SUCCESS, dev |-> <<>>,
     selected |-> NoPath, file_ref |-> NoPath, ref_present |-> FALSE,
     target |-> NoPath, has_param |-> FALSE, param |-> NoPath]

FileIdle == resolved = NoResolve

\* An sc_sec_env_param_t after memset: no type, value NULL.
NoParam == [param_type |-> "none", value |-> "NULL"]

\* An sc_security_env_t after memset (line 180).
NoEnv ==
    [algorithm |-> "none", key_size_bits |-> 0, flags |-> {}, algorithm_ref |-> 0,
     key_ref |-> <<>>, params |-> [i \in 1..SC_SEC_ENV_MAX_PARAMS |-> NoParam]]

\* A key object no call was made with.
NoKey ==
    [type |-> "CERT_X509", native |-> FALSE, bits |-> 0,
     key_type |-> "CKK_GENERIC_SECRET", key_reference |-> -1]

\* No call was made on the environment yet.
NoEnvCall ==
    [fn |-> "none", key |-> NoKey, caps |-> {}, r |-> SC_SUCCESS, p |-> NoParam,
     before |-> NoEnv.params, added |-> <<>>, adds |-> 0]

EnvIdle == senv = NoEnv /\ envcall = NoEnvCall

\* The module after C_Initialize with a global mutex, no call running.
RaceIdle ==
    /\ lk_pc = [t \in Threads |-> "idle"]
    /\ lk_fn = [t \in Threads |-> "none"]
    /\ lk_rv = [t \in Threads |-> "none"]
    /\ lk_context = TRUE
    /\ lk_lists = "live"
    /\ lk_global_lock = TRUE
    /\ lk_mutex = "unlocked"
    /\ lk_owner = NoThread
    /\ lk_in_finalize = FALSE
    /\ lk_teardowns = 0

\* No handler was called yet.
NoOp ==
    [op |-> "none", out |-> FALSE, lenptr |-> FALSE, len_in |-> 0, flags |-> {},
     after_query |-> FALSE, rv |-> SC_SUCCESS, dev |-> <<>>, data |-> "none",
     dflags |-> {}, buf |-> <<>>, devr |-> {}, steps |-> <<>>]

\* No handler is called while the other specifications run.
OpIdle ==
    /\ key = [type |-> "PRKEY_RSA", native |-> TRUE, usage |-> {},
              bits |-> MaxKeyBits, key_type |-> "CKK_GENERIC_SECRET"]
    /\ card = [alg |-> TRUE, NEED_USAGE |-> FALSE]
    /\ length = 0
    /\ last = NoOp

----------------------------------------------------------------------------
KeyInit ==
    /\ pc = [t \in Threads |-> "idle"]
    /\ fn = [t \in Threads |-> "none"]
    /\ keyfile = [t \in Threads |-> "none"]
    /\ begin = [t \in Threads |-> FALSE]
    /\ r = [t \in Threads |-> SC_SUCCESS]
    /\ revalidated_cached_pin = [t \in Threads |-> FALSE]
    /\ card_lock = NoThread
    /\ tracing = TRUE
    /\ log = [t \in Threads |-> <<>>]
    /\ passres = [t \in Threads |-> <<>>]
    /\ ret = [t \in Threads |-> SC_SUCCESS]
    /\ revalres = [t \in Threads |-> SC_SUCCESS]
    /\ ModLoaded
    /\ OpIdle
    /\ SlotsIdle
    /\ InfoIdle
    /\ TokIdle
    /\ FileIdle
    /\ EnvIdle
    /\ RaceIdle

CardInit ==
    /\ pc = [t \in Threads |-> "idle"]
    /\ fn = [t \in Threads |-> "none"]
    /\ keyfile = [t \in Threads |-> "none"]
    /\ begin = [t \in Threads |-> FALSE]
    /\ r = [t \in Threads |-> SC_SUCCESS]
    /\ revalidated_cached_pin = [t \in Threads |-> FALSE]
    /\ card_lock = NoThread
    /\ tracing = FALSE
    /\ log = [t \in Threads |-> <<>>]
    /\ passres = [t \in Threads |-> <<>>]
    /\ ret = [t \in Threads |-> SC_SUCCESS]
    /\ revalres = [t \in Threads |-> SC_SUCCESS]
    /\ ModLoaded
    /\ OpIdle
    /\ SlotsIdle
    /\ InfoIdle
    /\ TokIdle
    /\ FileIdle
    /\ EnvIdle
    /\ RaceIdle

KeyNext ==
    \E t \in Threads :
        \/ UseKeyCall(t)
        \/ UseKeyLock(t)
        \/ UseKeySelect(t)
        \/ UseKeySetEnv(t)
        \/ UseKeyPrim(t)
        \/ UseKeyReval(t)
        \/ UseKeyUnlock(t)
        \/ SymCall(t)
        \/ SymSelect(t)
        \/ SymSetEnv(t)
        \/ SymPrim(t)
        \/ SymReval(t)

\* One caller, with the record of each call.
SpecKey == KeyInit /\ [][KeyNext]_vars

\* SpecKey with a caller that keeps running: every device call of a handler
\* returns, so a step that is possible is eventually taken.
SpecKeyLive == KeyInit /\ [][KeyNext]_vars /\ WF_vars(KeyNext)

\* All threads on one card, concurrently.
SpecCard == CardInit /\ [][KeyNext]_vars

\* No card operation runs while the module lifecycle is explored.
KeyIdle ==
    /\ pc = [t \in Threads |-> "idle"]
    /\ fn = [t \in Threads |-> "none"]
    /\ keyfile = [t \in Threads |-> "none"]
    /\ begin = [t \in Threads |-> FALSE]
    /\ r = [t \in Threads |-> SC_SUCCESS]
    /\ revalidated_cached_pin = [t \in Threads |-> FALSE]
    /\ card_lock = NoThread
    /\ tracing = FALSE
    /\ log = [t \in Threads |-> <<>>]
    /\ passres = [t \in Threads |-> <<>>]
    /\ ret = [t \in Threads |-> SC_SUCCESS]
    /\ revalres = [t \in Threads |-> SC_SUCCESS]

ModInit == ModLoaded /\ KeyIdle /\ OpIdle /\ SlotsIdle /\ InfoIdle /\ TokIdle /\ FileIdle /\ EnvIdle /\ RaceIdle

ModNext ==
    \/ \E t \in Procs :
        \/ InitCall(t)
        \/ InitFork(t)
        \/ InitNest(t)
        \/ InitCheck(t)
        \/ InitInit(t)
        \/ InitLists(t)
        \/ InitNested(t)
        \/ FinCall(t)
        \/ FinTeardown(t)
        \/ WaitCall(t)
        \/ WaitWake(t)
        \/ OpenSession(t)
    \/ Fork

SpecMod == ModInit /\ [][ModNext]_vars

----------------------------------------------------------------------------
(***************************************************************************)
(* The operation handlers of pkcs15-sec.c: sc_pkcs15_decipher, _derive,    *)
(* _unwrap, _wrap, _compute_signature, _encrypt_sym and _decrypt_sym, one  *)
(* call at a time on one key. Each handler is an operator from its inputs  *)
(* and from what the card answers to the result of the call and the list   *)
(* of the device interactions it made.                                     *)
(***************************************************************************)

\* SC_PKCS15_PRKEY_USAGE_* bits tested by the handlers.
UsageBits == {"ENCRYPT", "DECRYPT", "SIGN", "SIGNRECOVER", "WRAP", "UNWRAP",
              "NONREPUDIATION", "DERIVE"}
USAGE_ANY_SIGN == {"SIGN", "NONREPUDIATION"}
USAGE_ANY_DECIPHER == {"DECRYPT", "UNWRAP"}
\* The usages of the keys: none, one bit, or a signing bit together with a
\* deciphering bit.
Usages ==
    {{}} \cup {{b} : b \in UsageBits}
    \cup {{s, d} : s \in {"SIGN", "SIGNRECOVER", "NONREPUDIATION"},
                   d \in USAGE_ANY_DECIPHER}

\* obj->type: SC_PKCS15_TYPE_<name>.
PrkeyTypes == {"PRKEY_RSA", "PRKEY_EC", "PRKEY_EDDSA", "PRKEY_XEDDSA",
               "PRKEY_GOSTR3410"}
SkeyTypes == {"SKEY_GENERIC", "SKEY_DES"}
KeyTypes == PrkeyTypes \cup SkeyTypes \cup {"CERT_X509"}

\* obj->type & SC_PKCS15_TYPE_CLASS_MASK
TypeClass(type) ==
    IF type \in PrkeyTypes THEN "PRKEY"
    ELSE IF type \in SkeyTypes THEN "SKEY" ELSE "CERT"

\* modulus_length / field_length / value_len of the key, in bits.
KeyBits == {MaxKeyBits - 1, MaxKeyBits}
BYTES4BITS(n) == (n + 7) \div 8

\* The key objects; key_type is read for SKEY_GENERIC only.
Keys ==
    {k \in [type : KeyTypes, native : BOOLEAN, usage : Usages, bits : KeyBits,
            key_type : {"CKK_AES", "CKK_GENERIC_SECRET"}] :
        k.type # "SKEY_GENERIC" => k.key_type = "CKK_GENERIC_SECRET"}

\* The card: whether sc_card_find_*_alg finds the key's algorithm, and
\* whether the algorithm has SC_ALGORITHM_NEED_USAGE.
Cards == [alg : BOOLEAN, NEED_USAGE : BOOLEAN]

\* Lengths a caller passes, and contents of its buffers.
BufLens == 0..MaxBufLen

\* A format_senv that accepts keys that are not on the card.
format_senv_NoNative(k, c) ==
    IF TypeClass(k.type) \notin {"PRKEY", "SKEY"} THEN SC_ERROR_NOT_ALLOWED
    ELSE IF k.type \in PrkeyTypes
    THEN IF c.alg THEN SC_SUCCESS ELSE SC_ERROR_NOT_SUPPORTED
    ELSE IF k.type = "SKEY_GENERIC"
    THEN IF k.key_type # "CKK_AES" THEN SC_ERROR_NOT_SUPPORTED
         ELSE IF c.alg THEN SC_SUCCESS ELSE SC_ERROR_NOT_SUPPORTED
    ELSE SC_ERROR_NOT_SUPPORTED

\* format_senv: the result code.
format_senv(k, c) ==
    IF TypeClass(k.type) \notin {"PRKEY", "SKEY"} THEN SC_ERROR_NOT_ALLOWED
    ELSE IF ~k.native THEN SC_ERROR_NOT_SUPPORTED
    ELSE IF k.type \in PrkeyTypes
    THEN IF c.alg THEN SC_SUCCESS ELSE SC_ERROR_NOT_SUPPORTED
    ELSE IF k.type = "SKEY_GENERIC"
    THEN IF k.key_type # "CKK_AES" THEN SC_ERROR_NOT_SUPPORTED
         ELSE IF c.alg THEN SC_SUCCESS ELSE SC_ERROR_NOT_SUPPORTED
    ELSE SC_ERROR_NOT_SUPPORTED

\* The algorithm flags a caller requests (SC_ALGORITHM_<name>).
RSA_PADS == {"RSA_RAW", "RSA_PAD_PKCS1"}
RequestedFlags == {{"RSA_RAW"}, {"RSA_PAD_PKCS1"}, {"AES_CBC"}}

\* sc_get_encoding_flags: fails, leaves the padding to the card, or asks for
\* the padding in software and a raw operation on the card.
EncodingFlags(flags) ==
    {[r |-> SC_ERROR_NOT_SUPPORTED, pad_flags |-> {}, sec_flags |-> {}],
     [r |-> SC_SUCCESS, pad_flags |-> {}, sec_flags |-> flags]}
    \cup {[r |-> SC_SUCCESS, pad_flags |-> {"RSA_PAD_PKCS1"},
           sec_flags |-> {"RSA_RAW"}] : x \in flags \cap {"RSA_PAD_PKCS1"}}

\* One pass of the dispatch loop on a key that has a key file: select,
\* set the environment, run the primitive; R are the primitive's results.
DevPass(prim, R) ==
    {[dev |-> <<"select_key_file">>, r |-> e] : e \in DeviceErrors}
    \cup {[dev |-> <<"select_key_file", "sc_set_security_env">>, r |-> e] :
              e \in DeviceErrors}
    \cup {[dev |-> <<"select_key_file", "sc_set_security_env", prim>>, r |-> x] :
              x \in R}

\* The loop: a pass, and after SECURITY_STATUS_NOT_SATISFIED one
\* revalidation of the cached PIN and, if it succeeds, one more pass.
Retry(first, second) ==
    UNION {IF p.r = SC_ERROR_SECURITY_STATUS_NOT_SATISFIED
           THEN {[dev |-> p.dev \o <<"sc_pkcs15_pincache_revalidate">>, r |-> e] :
                     e \in DeviceErrors}
                \cup {[dev |-> p.dev \o <<"sc_pkcs15_pincache_revalidate">>
                                     \o q.dev,
                       r |-> q.r] : q \in second}
           ELSE {p} : p \in first}

\* use_key as a whole: every way the call can go, with its result.
use_key(prim, R) ==
    {[dev |-> <<"sc_lock">>, r |-> e] : e \in LockErrors}
    \cup {[dev |-> <<"sc_lock">> \o p.dev \o <<"sc_unlock">>, r |-> p.r] :
              p \in Retry(DevPass(prim, R), DevPass(prim, R))}

\* The loop of the symmetric handlers: select and set-environment only in
\* the begin call (outlen == NULL); no lock.
SymPass(prim, isbegin) ==
    IF isbegin THEN DevPass(prim, StepResults)
    ELSE {[dev |-> <<prim>>, r |-> x] : x \in StepResults}

sym_loop(prim, isbegin) == Retry(SymPass(prim, isbegin), SymPass(prim, isbegin))

\* No dispatch: the handler returned before it.
NoUse == [dev |-> <<>>, r |-> SC_SUCCESS]
NoEnc == [r |-> SC_SUCCESS, pad_flags |-> {}, sec_flags |-> {}]

\* Results of a primitive that was given an output buffer of outlen bytes.
PrimBytes(outlen) == (0..outlen) \cup DeviceErrors

\* The output buffer after the card wrote n bytes into it: byte i of the
\* card's answer is i, the rest is what the caller had there (170).
Written(n, outlen) == [i \in 1..outlen |-> IF i <= n THEN i ELSE 170]

\* memmove(out + modlen - n, out, n); memset(out, 0, modlen - n)
LeftPad(out, n, modlen) ==
    [j \in 1..Len(out) |->
        IF j <= modlen - n THEN 0
        ELSE IF j <= modlen THEN out[j - (modlen - n)]
        ELSE out[j]]

\* What a handler call leaves behind: the value returned, the caller's
\* length variable, the device interactions, the input and flags handed to
\* sc_pkcs15_decipher (data: "none" if it was not called), the output
\* buffer, and the result of the dispatch if there was one.
Result(rv, len, dev) ==
    [rv |-> rv, length |-> len, dev |-> dev, data |-> "none", dflags |-> {},
     buf |-> <<>>, devr |-> {}, steps |-> <<>>]

\* sc_pkcs1_strip_02_padding_constant_time on n bytes.
StripResults(n) == (0..n) \cup {SC_ERROR_WRONG_PADDING}

\* The choices a handler gets to only after its earlier steps succeeded.
Encs(pre, flags) == IF pre < 0 THEN {NoEnc} ELSE EncodingFlags(flags)
AnyEncs(pre) ==
    IF pre < 0 THEN {NoEnc} ELSE UNION {EncodingFlags(f) : f \in RequestedFlags}
Uses(pre, enc, S) == IF pre < 0 \/ enc.r < 0 THEN {NoUse} ELSE S
EncodeResults == {SC_SUCCESS, SC_ERROR_INVALID_ARGUMENTS}
Strips(enc, u) ==
    IF u.dev # <<>> /\ u.r >= 0 /\ "RSA_PAD_PKCS1" \in enc.pad_flags
    THEN StripResults(u.r) ELSE {SC_SUCCESS}

\* A decipher that does not look at the usage of the key.
decipher_pre_NoUsage(k, c) == format_senv(k, c)

\* sc_pkcs15_decipher, lines 300-304: the checks before any encoding.
decipher_pre(k, c) ==
    IF k.usage \cap {"DECRYPT", "UNWRAP"} = {} THEN SC_ERROR_NOT_ALLOWED
    ELSE format_senv(k, c)

\* A decipher that reports an invalid padding in the log.
decipher_steps_Logged(k, c, enc, u, strip) ==
    IF decipher_pre(k, c) < 0 \/ enc.r < 0 \/ u.r < 0
    THEN <<"LOG_FUNC_CALLED", "LOG_TEST_RET">>
    ELSE IF "RSA_PAD_PKCS1" \in enc.pad_flags
    THEN <<"LOG_FUNC_CALLED", "format_senv", "sc_get_encoding_flags", "use_key",
           "sc_pkcs1_strip_02_padding_constant_time">>
         \o (IF strip < 0 THEN <<"LOG_TEST_RET">> ELSE <<>>)
    ELSE <<"LOG_FUNC_CALLED", "format_senv", "sc_get_encoding_flags", "use_key">>

\* sc_pkcs15_decipher, lines 298-343: the helpers called and the log
\* entries written, in order (LOG_TEST_RET writes and returns for r < 0;
\* strip is the result of the padding removal).
decipher_steps(k, c, enc, u, strip) ==
    IF k.usage \cap {"DECRYPT", "UNWRAP"} = {}
    THEN <<"LOG_FUNC_CALLED", "LOG_TEST_RET">>
    ELSE IF format_senv(k, c) < 0
    THEN <<"LOG_FUNC_CALLED", "format_senv", "LOG_TEST_RET">>
    ELSE IF enc.r < 0
    THEN <<"LOG_FUNC_CALLED", "format_senv", "sc_get_encoding_flags", "LOG_TEST_RET">>
    ELSE IF u.r < 0
    THEN <<"LOG_FUNC_CALLED", "format_senv", "sc_get_encoding_flags", "use_key",
           "LOG_TEST_RET">>
    ELSE IF "RSA_PAD_PKCS1" \in enc.pad_flags
    THEN <<"LOG_FUNC_CALLED", "format_senv", "sc_get_encoding_flags", "use_key",
           "sc_pkcs1_strip_02_padding_constant_time">>
    ELSE <<"LOG_FUNC_CALLED", "format_senv", "sc_get_encoding_flags", "use_key">>

\* sc_pkcs15_decipher(flags, in = data, out, outlen) with the caller's
\* length variable len; enc, u, strip: what sc_get_encoding_flags, use_key
\* and the padding removal answer.
sc_pkcs15_decipher(k, c, flags, data, outlen, len, enc, u, strip) ==
    LET pre == decipher_pre(k, c)
        called == [Result(pre, len, <<>>) EXCEPT !.data = data, !.dflags = flags,
                                                 !.steps = decipher_steps(k, c, enc, u, strip)]
    IN  IF pre < 0 THEN called
        ELSE IF enc.r < 0 THEN [called EXCEPT !.rv = enc.r]
        ELSE IF u.r < 0
        THEN [called EXCEPT !.rv = u.r, !.dev = u.dev, !.devr = {u.r}]
        ELSE [called EXCEPT
                 !.rv = IF "RSA_PAD_PKCS1" \in enc.pad_flags THEN strip ELSE u.r,
                 !.dev = u.dev, !.devr = {u.r},
                 !.buf = Written(u.r, outlen)]

\* sc_pkcs15_derive, lines 367-384: the checks before format_senv;
\* "query" is the answer to a size query.
derive_pre(k) ==
    IF "DERIVE" \notin k.usage THEN SC_ERROR_NOT_ALLOWED
    ELSE IF k.type \in {"PRKEY_EC", "PRKEY_XEDDSA"}
    THEN SC_SUCCESS
    ELSE SC_ERROR_NOT_SUPPORTED

derive_query(k, out, len) ==
    /\ derive_pre(k) = SC_SUCCESS
    /\ (~out \/ len < BYTES4BITS(k.bits))

\* A derive that asks the card whatever the buffer is.
sc_pkcs15_derive_NoQuery(k, c, out, len, enc, u) ==
    LET pre == derive_pre(k)
    IN  IF pre < 0 THEN Result(pre, len, <<>>)
        ELSE IF format_senv(k, c) < 0 THEN Result(format_senv(k, c), len, <<>>)
        ELSE IF enc.r < 0 THEN Result(enc.r, len, <<>>)
        ELSE IF u.r < 0 THEN [Result(u.r, len, u.dev) EXCEPT !.devr = {u.r}]
        ELSE [Result(u.r, u.r, u.dev) EXCEPT !.devr = {u.r}]

\* sc_pkcs15_derive(out, *poutlen = len).
sc_pkcs15_derive(k, c, out, len, enc, u) ==
    LET pre == derive_pre(k)
    IN  IF pre < 0 THEN Result(pre, len, <<>>)
        ELSE IF derive_query(k, out, len)
        THEN Result(0, BYTES4BITS(k.bits), <<>>)
        ELSE IF format_senv(k, c) < 0 THEN Result(format_senv(k, c), len, <<>>)
        ELSE IF enc.r < 0 THEN Result(enc.r, len, <<>>)
        ELSE IF u.r < 0 THEN [Result(u.r, len, u.dev) EXCEPT !.devr = {u.r}]
        ELSE [Result(u.r, u.r, u.dev) EXCEPT !.devr = {u.r}]

\* What derive has to pass before sc_get_encoding_flags; a size query
\* ends the call as the errors do.
derive_checks(k, c, out, len) ==
    IF derive_pre(k) < 0 THEN derive_pre(k)
    ELSE IF derive_query(k, out, len) THEN SC_ERROR_CARD_CMD_FAILED
    ELSE format_senv(k, c)

\* The target key of wrap / unwrap: its type and the shape of its path.
Targets == [type : {"PRKEY_RSA", "SKEY_GENERIC", "PRKEY_EC"},
            shape : {"absolute", "invalid"}]
AnyTarget == [type |-> "SKEY_GENERIC", shape |-> "absolute"]
TargetsIf(pre) == IF pre < 0 THEN {AnyTarget} ELSE Targets

\* sc_pkcs15_unwrap, lines 429-441: the tests of the unwrapping key.
unwrap_key(k, c) ==
    IF k.type = "PRKEY_RSA" /\ "UNWRAP" \notin k.usage THEN SC_ERROR_NOT_ALLOWED
    ELSE IF k.type # "PRKEY_RSA" /\ TypeClass(k.type) = "SKEY"
            /\ "UNWRAP" \notin k.usage THEN SC_ERROR_NOT_ALLOWED
    ELSE IF k.type # "PRKEY_RSA" /\ TypeClass(k.type) # "SKEY"
    THEN SC_ERROR_NOT_SUPPORTED
    ELSE format_senv(k, c)

\* lines 429-469: the checks before the encoding.
unwrap_pre(k, c, target) ==
    IF unwrap_key(k, c) < 0 THEN unwrap_key(k, c)
    ELSE IF target.shape = "invalid" THEN SC_ERROR_INVALID_ARGUMENTS
    ELSE SC_SUCCESS

\* sc_pkcs15_unwrap.
sc_pkcs15_unwrap(k, c, target, len, enc, u) ==
    LET pre == unwrap_pre(k, c, target)
    IN  IF pre < 0 THEN Result(pre, len, <<>>)
        ELSE IF enc.r < 0 THEN Result(enc.r, len, <<>>)
        ELSE [Result(u.r, len, u.dev) EXCEPT !.devr = {u.r}]

\* sc_pkcs15_wrap, lines 514-527: the tests of the wrapping key.
wrap_key(k) ==
    IF k.type = "PRKEY_RSA" /\ "WRAP" \notin k.usage THEN SC_ERROR_NOT_ALLOWED
    ELSE IF k.type \in {"SKEY_DES", "SKEY_GENERIC"} /\ "WRAP" \notin k.usage
    THEN SC_ERROR_NOT_ALLOWED
    ELSE IF k.type \notin {"PRKEY_RSA", "SKEY_DES", "SKEY_GENERIC"}
    THEN SC_ERROR_NOT_SUPPORTED
    ELSE SC_SUCCESS

\* lines 514-568: the checks before the encoding.
wrap_pre(k, c, target) ==
    IF wrap_key(k) < 0 THEN wrap_key(k)
    ELSE IF ~(target.type = "PRKEY_RSA" \/ TypeClass(target.type) = "SKEY")
    THEN SC_ERROR_NOT_SUPPORTED
    ELSE IF format_senv(k, c) < 0 THEN format_senv(k, c)
    ELSE IF target.shape = "invalid" THEN SC_ERROR_INVALID_ARGUMENTS
    ELSE SC_SUCCESS

\* A wrap that reports every undersized length, NULL buffer or not.
sc_pkcs15_wrap_NoQuery(k, c, target, cryptogram, crgram_len, len, enc, u) ==
    LET pre == wrap_pre(k, c, target)
    IN  IF pre < 0 THEN Result(pre, len, <<>>)
        ELSE IF enc.r < 0 THEN Result(enc.r, len, <<>>)
        ELSE IF u.r > -1 /\ crgram_len
        THEN IF len < u.r
             THEN [Result(SC_ERROR_BUFFER_TOO_SMALL, u.r, u.dev)
                      EXCEPT !.devr = {u.r}]
             ELSE [Result(u.r, u.r, u.dev) EXCEPT !.devr = {u.r}]
        ELSE [Result(u.r, len, u.dev) EXCEPT !.devr = {u.r}]

\* A wrap that stores the produced length only when it returns it.
sc_pkcs15_wrap_NoSize(k, c, target, cryptogram, crgram_len, len, enc, u) ==
    LET pre == wrap_pre(k, c, target)
    IN  IF pre < 0 THEN Result(pre, len, <<>>)
        ELSE IF enc.r < 0 THEN Result(enc.r, len, <<>>)
        ELSE IF u.r > -1 /\ crgram_len
        THEN IF len < u.r /\ cryptogram
             THEN [Result(SC_ERROR_BUFFER_TOO_SMALL, len, u.dev)
                      EXCEPT !.devr = {u.r}]
             ELSE [Result(u.r, u.r, u.dev) EXCEPT !.devr = {u.r}]
        ELSE [Result(u.r, len, u.dev) EXCEPT !.devr = {u.r}]

\* sc_pkcs15_wrap(cryptogram, crgram_len): cryptogram, crgram_len say
\* whether the pointers are non-NULL, len is *crgram_len.
sc_pkcs15_wrap(k, c, target, cryptogram, crgram_len, len, enc, u) ==
    LET pre == wrap_pre(k, c, target)
    IN  IF pre < 0 THEN Result(pre, len, <<>>)
        ELSE IF enc.r < 0 THEN Result(enc.r, len, <<>>)
        ELSE IF u.r > -1 /\ crgram_len
        THEN IF len < u.r /\ cryptogram
             THEN [Result(SC_ERROR_BUFFER_TOO_SMALL, u.r, u.dev)
                      EXCEPT !.devr = {u.r}]
             ELSE [Result(u.r, u.r, u.dev) EXCEPT !.devr = {u.r}]
        ELSE [Result(u.r, len, u.dev) EXCEPT !.devr = {u.r}]

\* A signature length that drops the bits of an incomplete byte.
modlen_Floor(k) ==
    IF k.type = "PRKEY_RSA" THEN k.bits \div 8 ELSE (k.bits \div 8) * 2

\* sc_pkcs15_compute_signature: modlen of the key (lines 625-639).
modlen(k) ==
    IF k.type = "PRKEY_RSA" THEN BYTES4BITS(k.bits) ELSE BYTES4BITS(k.bits) * 2

\* lines 617-648: the checks before the signing path is chosen; alloc is
\* whether sc_mem_secure_alloc gave a buffer.
sign_pre(k, c, outlen, alloc) ==
    IF k.usage \cap {"SIGN", "SIGNRECOVER", "NONREPUDIATION"} = {}
    THEN SC_ERROR_NOT_ALLOWED
    ELSE IF format_senv(k, c) < 0 THEN format_senv(k, c)
    ELSE IF k.type \notin PrkeyTypes THEN SC_ERROR_NOT_SUPPORTED
    ELSE IF outlen < modlen(k) THEN SC_ERROR_BUFFER_TOO_SMALL
    ELSE IF ~alloc THEN SC_ERROR_OUT_OF_MEMORY
    ELSE SC_SUCCESS

\* lines 669-672: the signature has to be made with the decipher operation.
SignByDecipher(k, c) ==
    /\ k.type = "PRKEY_RSA"
    /\ c.NEED_USAGE
    /\ k.usage \cap USAGE_ANY_SIGN # {}
    /\ k.usage \cap USAGE_ANY_DECIPHER # {}

\* The flags sc_pkcs15_decipher is called with (lines 674, 682-691).
DecipherFlags(flags) ==
    IF "RSA_RAW" \in flags THEN flags ELSE (flags \ RSA_PADS) \cup {"RSA_RAW"}

\* lines 702-717: the DigestInfo prefix is not stripped ("keep"), is
\* stripped, or the stripping fails.
DigestSteps(flags) ==
    IF "RSA_PAD_PKCS1" \in flags THEN {"keep", "stripped", "invalid"} ELSE {"keep"}

\* An RSA result has at most modlen bytes.
SigBytes(k, outlen) ==
    IF k.type = "PRKEY_RSA" /\ modlen(k) < outlen
    THEN PrimBytes(modlen(k)) ELSE PrimBytes(outlen)

\* A sc_pkcs15_compute_signature that signs with the sign operation whatever
\* the card needs.
sc_pkcs15_compute_signature_NoRedirect(k, c, flags, outlen, len, alloc, encode, digest, enc, u, strip) ==
    LET pre == sign_pre(k, c, outlen, alloc)
    IN  IF pre < 0 THEN Result(pre, len, <<>>)
        ELSE IF k.type = "PRKEY_RSA" /\ digest = "invalid"
        THEN Result(SC_ERROR_INVALID_DATA, len, <<>>)
        ELSE IF enc.r # SC_SUCCESS THEN Result(enc.r, len, <<>>)
        ELSE IF enc.pad_flags # {} /\ encode < 0 THEN Result(encode, len, <<>>)
        ELSE IF u.r < 0 THEN [Result(u.r, len, u.dev) EXCEPT !.devr = {u.r}]
        ELSE IF k.type = "PRKEY_RSA" /\ u.r < modlen(k)
        THEN [Result(modlen(k), len, u.dev) EXCEPT
                 !.devr = {u.r},
                 !.buf = LeftPad(Written(u.r, outlen), u.r, modlen(k))]
        ELSE [Result(u.r, len, u.dev) EXCEPT
                 !.devr = {u.r}, !.buf = Written(u.r, outlen)]

\* sc_pkcs15_compute_signature(flags, out, outlen); encode, digest: what
\* sc_pkcs1_encode and sc_pkcs1_strip_digest_info_prefix answer.
sc_pkcs15_compute_signature(k, c, flags, outlen, len, alloc, encode, digest, enc, u, strip) ==
    LET pre == sign_pre(k, c, outlen, alloc)
    IN  IF pre < 0 THEN Result(pre, len, <<>>)
        ELSE IF SignByDecipher(k, c)
        THEN IF "RSA_RAW" \in flags
             THEN sc_pkcs15_decipher(k, c, flags, "in", outlen, len, enc, u, strip)
             ELSE IF encode < 0 THEN Result(encode, len, <<>>)
             ELSE sc_pkcs15_decipher(k, c, DecipherFlags(flags), "pkcs1(in)",
                                     outlen, len, enc, u, strip)
        ELSE IF k.type = "PRKEY_RSA" /\ digest = "invalid"
        THEN Result(SC_ERROR_INVALID_DATA, len, <<>>)
        ELSE IF enc.r # SC_SUCCESS THEN Result(enc.r, len, <<>>)
        ELSE IF enc.pad_flags # {} /\ encode < 0 THEN Result(encode, len, <<>>)
        ELSE IF u.r < 0 THEN [Result(u.r, len, u.dev) EXCEPT !.devr = {u.r}]
        ELSE IF k.type = "PRKEY_RSA" /\ u.r < modlen(k)
        THEN [Result(modlen(k), len, u.dev) EXCEPT
                 !.devr = {u.r},
                 !.buf = LeftPad(Written(u.r, outlen), u.r, modlen(k))]
        ELSE [Result(u.r, len, u.dev) EXCEPT
                 !.devr = {u.r}, !.buf = Written(u.r, outlen)]

\* sc_pkcs15_encrypt_sym / sc_pkcs15_decrypt_sym: the checks before the
\* encoding; bit is the usage the handler asks for.
sym_pre(k, c, bit) ==
    IF bit \notin k.usage THEN SC_ERROR_NOT_ALLOWED ELSE format_senv(k, c)

\* The symmetric handlers after the usage test are the same code.
sc_pkcs15_sym(k, c, bit, len, enc, u) ==
    LET pre == sym_pre(k, c, bit)
    IN  IF pre < 0 THEN Result(pre, len, <<>>)
        ELSE IF enc.r < 0 THEN Result(enc.r, len, <<>>)
        ELSE [Result(u.r, len, u.dev) EXCEPT !.devr = {u.r}]

sc_pkcs15_encrypt_sym(k, c, len, enc, u) == sc_pkcs15_sym(k, c, "ENCRYPT", len, enc, u)
sc_pkcs15_decrypt_sym(k, c, len, enc, u) == sc_pkcs15_sym(k, c, "DECRYPT", len, enc, u)

\* The inputs of a call that are kept with its result.
In(out, lenptr, len, flags) ==
    [out |-> out, lenptr |-> lenptr, len |-> len, flags |-> flags]

\* The call before this one was a size query of sc_pkcs15_derive.
AfterQuery == last.op = "derive" /\ last.rv = 0 /\ last.dev = <<>>

\* The handlers keep nothing between two calls: a call depends on the key,
\* the card, its arguments and the answers of the device. The caller makes
\* one call, and one more after a size query.
CanCall == last.op = "none" \/ AfterQuery

\* The handler op returns res to a caller that passed the inputs in.
Finish(op, in, res) ==
    /\ last' = [op |-> op, out |-> in.out, lenptr |-> in.lenptr,
                len_in |-> in.len, flags |-> in.flags,
                after_query |-> AfterQuery, rv |-> res.rv, dev |-> res.dev,
                data |-> res.data, dflags |-> res.dflags, buf |-> res.buf,
                devr |-> res.devr, steps |-> res.steps]
    /\ length' = res.length
    /\ UNCHANGED <<key, card>>
    /\ UNCHANGED notOpVars

Decipher ==
    /\ CanCall
    /\ \E flags \in RequestedFlags, outlen \in BufLens :
        \E enc \in Encs(decipher_pre(key, card), flags) :
            \E u \in Uses(decipher_pre(key, card), enc,
                          use_key("sc_decipher", PrimBytes(outlen))) :
                \E strip \in Strips(enc, u) :
                    Finish("decipher", In(TRUE, FALSE, outlen, flags),
                           sc_pkcs15_decipher(key, card, flags, "in", outlen,
                                              length, enc, u, strip))

Derive ==
    /\ CanCall
    /\ \E out \in BOOLEAN, len \in BufLens :
        \E enc \in AnyEncs(derive_checks(key, card, out, len)) :
            \E u \in Uses(derive_checks(key, card, out, len), enc,
                          use_key("sc_decipher", PrimBytes(len))) :
                Finish("derive", In(out, TRUE, len, {}),
                       sc_pkcs15_derive(key, card, out, len, enc, u))

Unwrap ==
    /\ CanCall
    /\ \E target \in TargetsIf(unwrap_key(key, card)) :
        \E enc \in AnyEncs(unwrap_pre(key, card, target)) :
            \E u \in Uses(unwrap_pre(key, card, target), enc,
                          use_key("sc_unwrap", PrimBytes(0))) :
                Finish("unwrap", In(FALSE, FALSE, 0, {}),
                       sc_pkcs15_unwrap(key, card, target, length, enc, u))

Wrap ==
    /\ CanCall
    /\ \E cryptogram \in BOOLEAN, crgram_len \in BOOLEAN :
        \E len \in IF crgram_len THEN BufLens ELSE {length},
           target \in TargetsIf(wrap_key(key)) :
            \E enc \in AnyEncs(wrap_pre(key, card, target)) :
                \E u \in Uses(wrap_pre(key, card, target), enc,
                              use_key("sc_wrap", PrimBytes(MaxBufLen))) :
                    Finish("wrap", In(cryptogram, crgram_len, len, {}),
                           sc_pkcs15_wrap(key, card, target, cryptogram,
                                          crgram_len, len, enc, u))

ComputeSignature ==
    /\ CanCall
    /\ \E flags \in RequestedFlags, outlen \in BufLens :
        \E alloc \in IF sign_pre(key, card, outlen, TRUE) < 0
                      THEN {TRUE} ELSE BOOLEAN :
            \E encode \in IF sign_pre(key, card, outlen, alloc) < 0
                           THEN {SC_SUCCESS} ELSE EncodeResults,
               digest \in IF sign_pre(key, card, outlen, alloc) < 0
                           THEN {"keep"} ELSE DigestSteps(flags) :
                \E enc \in Encs(sign_pre(key, card, outlen, alloc),
                                IF SignByDecipher(key, card)
                                THEN DecipherFlags(flags) ELSE flags) :
                    \E u \in Uses(sign_pre(key, card, outlen, alloc), enc,
                                  use_key(IF SignByDecipher(key, card)
                                          THEN "sc_decipher"
                                          ELSE "sc_compute_signature",
                                          SigBytes(key, outlen))) :
                        \E strip \in Strips(enc, u) :
                            Finish("sign", In(TRUE, FALSE, outlen, flags),
                                   sc_pkcs15_compute_signature(
                                       key, card, flags, outlen, length, alloc,
                                       encode, digest, enc, u, strip))

EncryptSym ==
    /\ CanCall
    /\ \E isbegin \in BOOLEAN :
        \E enc \in AnyEncs(sym_pre(key, card, "ENCRYPT")) :
            \E u \in Uses(sym_pre(key, card, "ENCRYPT"), enc,
                          sym_loop("sc_encrypt_sym", isbegin)) :
                Finish("encrypt_sym", In(TRUE, ~isbegin, 0, {}),
                       sc_pkcs15_encrypt_sym(key, card, length, enc, u))

DecryptSym ==
    /\ CanCall
    /\ \E isbegin \in BOOLEAN :
        \E enc \in AnyEncs(sym_pre(key, card, "DECRYPT")) :
            \E u \in Uses(sym_pre(key, card, "DECRYPT"), enc,
                          sym_loop("sc_decrypt_sym", isbegin)) :
                Finish("decrypt_sym", In(TRUE, ~isbegin, 0, {}),
                       sc_pkcs15_decrypt_sym(key, card, length, enc, u))

\* Any key on any card; the caller's length variable starts at 0.
OpInit ==
    /\ key \in Keys
    /\ card \in Cards
    /\ length = 0
    /\ last = NoOp
    /\ ModLoaded
    /\ KeyIdle
    /\ SlotsIdle
    /\ InfoIdle
    /\ TokIdle
    /\ FileIdle
    /\ EnvIdle
    /\ RaceIdle

OpNext ==
    \/ Decipher
    \/ Derive
    \/ Unwrap
    \/ Wrap
    \/ ComputeSignature
    \/ EncryptSym
    \/ DecryptSym

\* One caller of the handlers, one call at a time.
SpecOp == OpInit /\ [][OpNext]_vars


----------------------------------------------------------------------------
(***************************************************************************)
(* Properties of the dispatcher and of the symmetric handlers.             *)
(***************************************************************************)

\* Thread t has returned from a call of f, whose record is in log[t].
LastCall(t, f) == pc[t] = "idle" /\ log[t] # <<>> /\ log[t][1] = f

SSNS == SC_ERROR_SECURITY_STATUS_NOT_SATISFIED

\* Thread t is inside a select-file / set-environment / primitive sequence
\* (or between the first pass and the retry pass).
InSequence(t) == pc[t] \in {"select", "setenv", "prim", "reval"}

\* C1, as claimed: whenever the first pass of a use_key call ends with
\* security-status-not-satisfied, one re-validation is attempted, the pass is
\* run once more and the primitive is invoked exactly 2 times in that call.
C1_Original ==
    \A t \in Threads :
        (LastCall(t, "use_key") /\ passres[t] # <<>> /\ passres[t][1] = SSNS)
        => /\ Count(log[t], "reval") = 1
           /\ Count(log[t], "pass") = 2
           /\ Count(log[t], "prim") = 2

\* C1, amended: a first pass of use_key that ends with security-status-not-
\* satisfied is followed by exactly one cached-PIN re-validation; a second
\* pass runs exactly when that re-validation succeeded, its result (also a
\* second security-status-not-satisfied) is returned unchanged, and there is
\* never a third pass nor a second re-validation; when the re-validation fails
\* its error is returned without a second pass. The primitive is invoked at
\* most once per pass, hence at most twice per call.
C1_RetryOnce ==
    \A t \in Threads :
        /\ (log[t] # <<>> /\ log[t][1] = "use_key") =>
            /\ Count(log[t], "pass") <= 2
            /\ Count(log[t], "reval") <= 1
            /\ Count(log[t], "prim") <= Count(log[t], "pass")
        /\ LastCall(t, "use_key") /\ passres[t] # <<>> =>
            /\ Len(passres[t]) = Count(log[t], "pass")
            /\ Count(log[t], "reval") = (IF passres[t][1] = SSNS THEN 1 ELSE 0)
            /\ Len(passres[t]) = 2 => passres[t][1] = SSNS /\ ret[t] = passres[t][2]
            /\ (Len(passres[t]) = 1 /\ passres[t][1] = SSNS) => ret[t] < 0
            /\ (Len(passres[t]) = 1 /\ passres[t][1] # SSNS) => ret[t] = passres[t][1]

\* C1 witness: both passes reached the primitive and ended with
\* security-status-not-satisfied; the second one is what the call returned.
C1_Witness ==
    \E t \in Threads :
        /\ LastCall(t, "use_key")
        /\ passres[t] = <<SSNS, SSNS>>
        /\ Count(log[t], "prim") = 2
        /\ ret[t] = SSNS

\* C2: a use_key call that took the device lock released it exactly once, as
\* the last thing before returning; a call whose path lookup or lock
\* acquisition failed returned that error with no lock taken and no device
\* interaction; between calls the device lock is free.
C2_LockReleased ==
    /\ (\A t \in Threads : pc[t] = "idle") => card_lock = NoThread
    /\ \A t \in Threads :
        LastCall(t, "use_key") =>
            /\ card_lock # t
            /\ Count(log[t], "lock") = Count(log[t], "unlock")
            /\ Count(log[t], "lock") <= 1
            /\ Count(log[t], "lock") = 1 =>
                  /\ log[t][2] = "lock"
                  /\ log[t][Len(log[t])] = "unlock"
            /\ Count(log[t], "lock") = 0 =>
                  /\ Len(log[t]) = 1
                  /\ ret[t] \in {SC_ERROR_INCORRECT_PARAMETERS} \cup LockErrors

\* C2 witness: a call that failed in the re-validation after a first pass
\* stopped by the file selection, and released the lock.
C2_Witness ==
    \E t \in Threads :
        /\ LastCall(t, "use_key")
        /\ log[t] = <<"use_key", "lock", "pass", "select", "reval", "unlock">>
        /\ ret[t] < 0
        /\ card_lock = NoThread

\* C3: a thread in use_key holds the device lock from before the first
\* selection until after the last step (passes, re-validation and retry
\* included), so at most one thread is inside such a sequence.
C3_LockHeld ==
    /\ \A t \in Threads :
        (fn[t] = "use_key" /\ (InSequence(t) \/ pc[t] = "unlock")) => card_lock = t
    /\ \A t1, t2 \in Threads :
        (fn[t1] = "use_key" /\ fn[t2] = "use_key" /\ InSequence(t1) /\ InSequence(t2))
        => t1 = t2

\* C3 witness: one thread is about to re-validate the PIN between its two
\* passes while another use_key call waits for the device lock.
C3_Witness ==
    \E t1, t2 \in Threads :
        /\ fn[t1] = "use_key" /\ pc[t1] = "reval" /\ card_lock = t1
        /\ fn[t2] = "use_key" /\ pc[t2] = "lock"

\* C4, as claimed: the symmetric handlers hold the device lock during their
\* select-file / set-environment / primitive sequence, so two threads are
\* never inside such a sequence on the same card at once.
C4_SymLockHeld ==
    /\ \A t \in Threads :
        (fn[t] \in SymFns /\ InSequence(t)) => card_lock = t
    /\ \A t1, t2 \in Threads :
        (fn[t1] \in SymFns /\ InSequence(t1) /\ InSequence(t2)) => t1 = t2

----------------------------------------------------------------------------
(***************************************************************************)
(* Properties of the module lifecycle.  `done` describes the call the      *)
(* observed caller returned from in the last step, so the module variables *)
(* are those immediately after that call.                                  *)
(***************************************************************************)

\* The observed call ran with no other caller inside the module.
Sequential(op) == done.op = op /\ done.alone

\* The observed call made the step e.
Stepped(e) == \E i \in DOMAIN done.log : done.log[i] = e

\* The collections and the lock of the module are as at the entry of the
\* observed call.
SameModule ==
    /\ context = done.entry.context
    /\ global_lock = done.entry.global_lock
    /\ global_locking = done.entry.global_locking
    /\ sessions = done.entry.sessions
    /\ virtual_slots = done.entry.virtual_slots

\* C5, as claimed: a caller that was waiting in a blocking C_WaitForSlotEvent
\* while another caller finalized the module returns
\* CKR_CRYPTOKI_NOT_INITIALIZED, whatever the other callers did meanwhile.
C5_WaiterSeesFinalize ==
    (done.op = "C_WaitForSlotEvent" /\ done.finalized)
    => done.rv = "CKR_CRYPTOKI_NOT_INITIALIZED"

\* The forced re-initialization: C_Initialize entered in a forked child on an
\* initialized module.
ForkedInit == Sequential("C_Initialize") /\ done.entry.context /\ done.entry.forked

\* The observed call began with the internal finalize and the pid record.
FinalizedFirst ==
    /\ Len(done.log) >= 3
    /\ SubSeq(done.log, 1, 3) = <<"terminate", "finalize", "pid">>

C7_FailsFast ==
    /\ (done.op = "C_Initialize" /\ done.initializing) => done.rv = "CKR_GENERAL_ERROR"
    /\ \A t \in Procs : api_pc[t] # "I_deadlock"

\* C8: a C_Initialize on an initialized module of the same process, with no
\* other caller inside the module, returns CKR_CRYPTOKI_ALREADY_INITIALIZED
\* and leaves the context, the global mutex, the locking strategy, the
\* sessions and the slots as they were; the nesting counter is back to its
\* value at entry and neither mutex is left locked.
C8_AlreadyInitialized ==
    (Sequential("C_Initialize") /\ done.entry.context /\ ~done.entry.forked) =>
        /\ done.rv = "CKR_CRYPTOKI_ALREADY_INITIALIZED"
        /\ SameModule
        /\ nesting = done.entry.nesting
        /\ global_owner = NoThread /\ c_initialize_m = NoThread

\* C8 witness: the module had a global mutex, a slot and a session.
C8_Witness ==
    /\ Sequential("C_Initialize") /\ done.entry.context /\ ~done.entry.forked
    /\ done.rv = "CKR_CRYPTOKI_ALREADY_INITIALIZED"
    /\ global_lock = "mutex" /\ sessions # {}

\* C9: C_Finalize with a reserved argument returns CKR_ARGUMENTS_BAD, and
\* C_Finalize on a module that is not initialized returns
\* CKR_CRYPTOKI_NOT_INITIALIZED (CKR_ARGUMENTS_BAD when the argument is set
\* too); neither changes the context, the global lock, in_finalize, the
\* sessions or the slots.
C9_FinalizeRejected ==
    Sequential("C_Finalize") =>
        /\ done.log = <<"reserved">> => done.rv = "CKR_ARGUMENTS_BAD"
        /\ (~done.entry.context /\ done.log # <<"reserved">>)
              => done.rv = "CKR_CRYPTOKI_NOT_INITIALIZED"
        /\ done.rv \in {"CKR_ARGUMENTS_BAD", "CKR_CRYPTOKI_NOT_INITIALIZED"} =>
              /\ SameModule
              /\ in_finalize = done.entry.in_finalize
              /\ nesting = done.entry.nesting
              /\ global_owner = NoThread

\* C9 witness: C_Finalize on a module that an earlier C_Finalize has already
\* finalized (in_finalize still set).
C9_Witness ==
    /\ Sequential("C_Finalize")
    /\ done.rv = "CKR_CRYPTOKI_NOT_INITIALIZED"
    /\ ~done.entry.context /\ done.entry.in_finalize

\* C10, as claimed: a C_Initialize that fails in its initialization on a
\* module with no locking strategy selected leaves context NULL, no global
\* mutex, no locking strategy selected and the nesting counter at 0.
C10_CleanAfterFailure ==
    (/\ Sequential("C_Initialize")
     /\ done.entry.global_locking = "NULL"
     /\ Stepped("init")
     /\ done.rv # "CKR_OK") =>
        /\ ~context
        /\ global_lock = "NULL"
        /\ global_locking = "NULL"
        /\ nesting = 0

----------------------------------------------------------------------------
(***************************************************************************)
(* Properties of the operation handlers (SpecOp).                          *)
(***************************************************************************)

Called == last.op # "none"
Range(f) == {f[i] : i \in DOMAIN f}

\* The usage bits the handler of the last call asks for.
Required ==
    CASE last.op = "decipher" -> {"DECRYPT", "UNWRAP"}
      [] last.op = "derive" -> {"DERIVE"}
      [] last.op = "sign" -> {"SIGN", "SIGNRECOVER", "NONREPUDIATION"}
      [] last.op = "wrap" -> {"WRAP"}
      [] last.op = "unwrap" -> {"UNWRAP"}
      [] last.op = "encrypt_sym" -> {"ENCRYPT"}
      [] last.op = "decrypt_sym" -> {"DECRYPT"}
      [] OTHER -> {}
HasUsage == key.usage \cap Required # {}

\* The last call was a derive on an EC / XEdDSA key without a buffer, or
\* with one shorter than the field.
SizeQuery ==
    /\ last.op = "derive"
    /\ key.type \in {"PRKEY_EC", "PRKEY_XEDDSA"}
    /\ (~last.out \/ last.len_in < BYTES4BITS(key.bits))

\* C12 as stated: a key that is not native makes every handler return
\* not-supported without any device interaction, whatever its usage.
C12_Original ==
    (Called /\ ~key.native) =>
        (last.rv = SC_ERROR_NOT_SUPPORTED /\ last.dev = <<>>)

\* C12: a key that is not native never reaches the device, and every
\* handler returns not-supported for it once the key has passed the tests
\* the handler makes before it builds the environment (the usage bits, for
\* derive the size of the buffer); a key failing those gets their result.
C12_NotNative ==
    (Called /\ ~key.native) =>
        /\ last.dev = <<>>
        /\ (TypeClass(key.type) # "CERT" /\ HasUsage /\ ~SizeQuery) =>
              last.rv = SC_ERROR_NOT_SUPPORTED
        /\ last.rv # SC_ERROR_NOT_SUPPORTED =>
              \/ last.rv = SC_ERROR_NOT_ALLOWED
              \/ SizeQuery /\ HasUsage /\ last.rv = 0

\* C12 witness: a signature asked of a signing key that is not native.
C12_Witness ==
    /\ last.op = "sign" /\ ~key.native /\ HasUsage
    /\ key.type = "PRKEY_RSA" /\ card.alg
    /\ last.rv = SC_ERROR_NOT_SUPPORTED /\ last.dev = <<>>

\* The handler of the last call tests the usage of keys of this type.
UsageTested ==
    CASE last.op = "wrap" -> key.type \in {"PRKEY_RSA", "SKEY_DES", "SKEY_GENERIC"}
      [] last.op = "unwrap" -> key.type = "PRKEY_RSA" \/ TypeClass(key.type) = "SKEY"
      [] OTHER -> TRUE

\* C13 as stated: a missing usage bit makes every handler return
\* not-allowed, never not-supported, without any device interaction.
C13_Original ==
    (Called /\ ~HasUsage) =>
        (last.rv = SC_ERROR_NOT_ALLOWED /\ last.dev = <<>>)

\* C13: a key without the usage bit the handler requires never reaches the
\* device; the call returns not-allowed, except that wrap and unwrap return
\* not-supported for the key types they do not handle, whose usage they do
\* not look at.
C13_UsageFirst ==
    (Called /\ ~HasUsage) =>
        /\ last.dev = <<>>
        /\ UsageTested => last.rv = SC_ERROR_NOT_ALLOWED
        /\ ~UsageTested => last.rv = SC_ERROR_NOT_SUPPORTED

\* C13 witness: decipher refused for a native RSA key that may only sign.
C13_Witness ==
    /\ last.op = "decipher" /\ key.native /\ card.alg
    /\ key.type = "PRKEY_RSA" /\ key.usage = {"SIGN"}
    /\ last.rv = SC_ERROR_NOT_ALLOWED /\ last.dev = <<>>

\* C14: derive on an EC / XEdDSA key with derive usage answers a missing or
\* short buffer with 0, the length set to ceil(field_length / 8) and no
\* device interaction; with a sufficient buffer a call that succeeds has run
\* the device sequence and returns the number of bytes of the device, which
\* is also the length; a failing call leaves the length as it was.
C14_SizeQuery ==
    (last.op = "derive" /\ key.type \in {"PRKEY_EC", "PRKEY_XEDDSA"}
        /\ "DERIVE" \in key.usage) =>
        /\ SizeQuery =>
              /\ last.rv = 0
              /\ length = BYTES4BITS(key.bits)
              /\ 8 * length >= key.bits /\ 8 * (length - 1) < key.bits
              /\ last.dev = <<>>
        /\ (~SizeQuery /\ last.rv >= 0) =>
              /\ last.devr = {last.rv}
              /\ length = last.rv
              /\ last.dev = <<"sc_lock", "select_key_file", "sc_set_security_env",
                              "sc_decipher", "sc_unlock">>
                 \/ /\ Len(last.dev) > 5
                    /\ "sc_pkcs15_pincache_revalidate" \in Range(last.dev)
                    /\ last.dev[Len(last.dev) - 1] = "sc_decipher"
        /\ (~SizeQuery /\ last.rv < 0) => length = last.len_in

\* C14 witness: the call after a size query, made with the size it
\* reported, returned the bytes of the device.
C14_Witness ==
    /\ last.op = "derive" /\ last.after_query /\ last.out
    /\ last.len_in = BYTES4BITS(key.bits)
    /\ last.rv > 0 /\ length = last.rv
    /\ "sc_decipher" \in Range(last.dev)

\* C15: an RSA key usable for signing (sign or non-repudiation) and for
\* deciphering on a NEED_USAGE card is signed with through
\* sc_pkcs15_decipher only: the input unchanged and the flags as requested
\* for raw RSA, the padded input and the flags with the paddings replaced
\* by raw otherwise; the device is asked for sc_decipher, never for
\* sc_compute_signature, and a call that succeeds has asked for it.
C15_ThroughDecipher ==
    (last.op = "sign" /\ SignByDecipher(key, card)) =>
        /\ "sc_compute_signature" \notin Range(last.dev)
        /\ last.dev # <<>> => last.data # "none"
        /\ last.rv >= 0 => "sc_decipher" \in Range(last.dev)
        /\ (last.data # "none" /\ "RSA_RAW" \in last.flags) =>
              (last.data = "in" /\ last.dflags = last.flags)
        /\ (last.data # "none" /\ "RSA_RAW" \notin last.flags) =>
              /\ last.data = "pkcs1(in)"
              /\ last.dflags \cap RSA_PADS = {"RSA_RAW"}
              /\ last.dflags \ RSA_PADS = last.flags \ RSA_PADS

\* C15 witness: a padded signature made by the decipher primitive.
C15_Witness ==
    /\ last.op = "sign" /\ SignByDecipher(key, card)
    /\ "RSA_PAD_PKCS1" \in last.flags
    /\ last.data = "pkcs1(in)" /\ last.dflags = {"RSA_RAW"}
    /\ "sc_decipher" \in Range(last.dev) /\ last.rv > 0

\* The output holds n bytes of the device at the end of modlen bytes, after
\* zeros.
LeftPadded(n, m) ==
    /\ Len(last.buf) >= m
    /\ \A j \in 1..m :
          last.buf[j] = (IF j <= m - n THEN 0 ELSE j - (m - n))

\* C16: a sc_pkcs15_compute_signature that succeeds for an RSA key returns
\* the modulus byte length, on whichever path: r < modlen bytes of the
\* device are the last r bytes of the output, after modlen - r zeros.
C16_FullWidth ==
    (last.op = "sign" /\ key.type = "PRKEY_RSA" /\ last.rv >= 0) =>
        /\ last.rv = BYTES4BITS(key.bits)
        /\ \A n \in last.devr : LeftPadded(n, BYTES4BITS(key.bits))

\* C17: wrap with a NULL buffer and a length pointer returns the length r
\* of the device and stores it, whatever the length held; a NULL buffer
\* never gives buffer-too-small.
C17_NullBuffer ==
    (last.op = "wrap" /\ ~last.out) =>
        /\ last.rv # SC_ERROR_BUFFER_TOO_SMALL
        /\ \A n \in last.devr :
              (n >= 0 /\ last.lenptr) => (last.rv = n /\ length = n)

\* C17 witness: the length held less than the device produced.
C17_Witness ==
    /\ last.op = "wrap" /\ ~last.out /\ last.lenptr
    /\ last.devr # {} /\ \A n \in last.devr : n > last.len_in
    /\ last.rv > 0 /\ length = last.rv

\* C18: wrap with a buffer and a length below the length r of the device
\* returns buffer-too-small and stores r; with a length of at least r it
\* returns r and stores r; when the device sequence fails it returns the
\* error and the length is as it was.
C18_Buffer ==
    (last.op = "wrap" /\ last.out /\ last.lenptr) =>
        \A n \in last.devr :
            /\ (n >= 0 /\ last.len_in < n) =>
                  (last.rv = SC_ERROR_BUFFER_TOO_SMALL /\ length = n)
            /\ (n >= 0 /\ last.len_in >= n) => (last.rv = n /\ length = n)
            /\ n < 0 => (last.rv = n /\ length = last.len_in)

\* C18 witness: a buffer one byte short.
C18_Witness ==
    /\ last.op = "wrap" /\ last.out /\ last.lenptr
    /\ last.devr = {last.len_in + 1}
    /\ last.rv = SC_ERROR_BUFFER_TOO_SMALL /\ length = last.len_in + 1

----------------------------------------------------------------------------
(***************************************************************************)
(* The slot collection: C_GetSlotList, C_GetSlotInfo, C_InitToken and      *)
(* C_WaitForSlotEvent between C_Initialize and C_Finalize, one call at a   *)
(* time. card_detect_all, card_detect and slot_find_changed are in slot.c. *)
(***************************************************************************)
Readers == 1..NumReaders
NoReader == 0

\* The readers that have slots.
ReadersOf(sl) == {sl[i].reader : i \in DOMAIN sl} \ {NoReader}

\* The place of slot i among the slots of its reader.
PlaceOf(sl, i) == Cardinality({j \in 1..i : sl[j].reader = sl[i].reader})

\* card_detect_all: the slots of the readers in gone lose their reader and
\* their token; the card of another reader shows cards[reader] tokens, in
\* the first slots of the reader; the reader fresh, if it is one, gets its
\* slots at the end of the list.
Detect(sl, gone, fresh, cards) ==
    LET kept == [i \in DOMAIN sl |->
                    IF sl[i].reader \in gone \/ sl[i].reader = NoReader
                    THEN [sl[i] EXCEPT !.reader = NoReader, !.token = FALSE]
                    ELSE [sl[i] EXCEPT
                             !.token = (PlaceOf(sl, i) <= cards[sl[i].reader])]]
    IN  IF fresh = NoReader THEN kept
        ELSE kept \o [i \in 1..SlotsPerReader |->
                        [reader |-> fresh, token |-> i <= cards[fresh],
                         seen |-> FALSE]]

\* Every list card_detect_all can make of sl.
Detected(sl) ==
    UNION {{Detect(sl, gone, fresh, cards) :
               cards \in [(ReadersOf(sl) \ gone) \cup ({fresh} \ {NoReader})
                             -> 0..SlotsPerReader]} :
           gone \in SUBSET ReadersOf(sl),
           fresh \in {NoReader} \cup
                     {rd \in Readers \ ReadersOf(sl) :
                         Len(sl) + SlotsPerReader <= MaxSlots}}

\* sl[i].reader != prev_reader
NewReader(sl, i) == sl[i].reader # (IF i = 1 THEN NoReader ELSE sl[i - 1].reader)

\* A list that forgets what it has shown.
Listed_NoSeen(sl, tokenPresent, i) ==
    \/ ~tokenPresent /\ NewReader(sl, i)
    \/ sl[i].token

\* A list without the empty slots of the readers.
Listed_NoFirst(sl, tokenPresent, i) ==
    \/ ~tokenPresent /\ sl[i].seen
    \/ sl[i].token

\* lines 549-552: slot i of sl goes into the list.
Listed(sl, tokenPresent, i) ==
    \/ ~tokenPresent /\ (NewReader(sl, i) \/ sl[i].seen)
    \/ sl[i].token

\* The ids in found[] after the loop; a slot's id is its place in the list.
RECURSIVE SlotList(_, _, _)
SlotList(sl, tokenPresent, i) ==
    IF i > Len(sl) THEN <<>>
    ELSE (IF Listed(sl, tokenPresent, i) THEN <<i>> ELSE <<>>)
         \o SlotList(sl, tokenPresent, i + 1)

\* A loop that marks the slots only when no presence filter was given.
MarkSeen_Unfiltered(sl, tokenPresent) ==
    [i \in DOMAIN sl |->
        IF ~tokenPresent /\ Listed(sl, tokenPresent, i)
        THEN [sl[i] EXCEPT !.seen = TRUE] ELSE sl[i]]

\* The slots after the loop: those in the list are marked as seen.
MarkSeen(sl, tokenPresent) ==
    [i \in DOMAIN sl |->
        IF Listed(sl, tokenPresent, i) THEN [sl[i] EXCEPT !.seen = TRUE] ELSE sl[i]]

\* A call returns rv.
Answer(op, rv, filter, sizeonly, list, sl) ==
    listed' = [op |-> op, rv |-> rv, filter |-> filter, sizeonly |-> sizeonly,
               found |-> list, at |-> sl]

\* sc_pkcs11_lock of a module that is not initialized.
NotLive(op) ==
    /\ ~live
    /\ Answer(op, "CKR_CRYPTOKI_NOT_INITIALIZED", FALSE, FALSE, <<>>, slotlist)
    /\ UNCHANGED <<live, slotlist, returned>>
    /\ UNCHANGED notSlotVars

\* C_Initialize, lines 366-372: the empty list and card_detect_all.
SlotsInitialize ==
    /\ ~live
    /\ live' = TRUE
    /\ slotlist' \in Detected(<<>>)
    /\ returned' = {}
    /\ Answer("C_Initialize", "CKR_OK", FALSE, FALSE, <<>>, slotlist')
    /\ UNCHANGED notSlotVars

\* C_Finalize, lines 428-436: every slot is freed.
SlotsFinalize ==
    \/ NotLive("C_Finalize")
    \/ /\ live
       /\ live' = FALSE
       /\ slotlist' = <<>>
       /\ returned' = {}
       /\ Answer("C_Finalize", "CKR_OK", FALSE, FALSE, <<>>, <<>>)
       /\ UNCHANGED notSlotVars

\* What C_GetSlotList answers for the list of ids it made: sizeonly:
\* pSlotList is NULL, room: *pulCount.
ListAnswer(list, sizeonly, room) ==
    IF sizeonly THEN "size"
    ELSE IF room < Len(list) THEN "CKR_BUFFER_TOO_SMALL"
    ELSE "CKR_OK"

\* C_GetSlotList(tokenPresent, pSlotList, pulCount): an empty list, a
\* calloc that fails, or the loop and the answer. listed.found is the array
\* found[] of the call.
GetSlotList ==
    \/ NotLive("C_GetSlotList")
    \/ /\ live
       /\ \E tokenPresent \in BOOLEAN, sl \in Detected(slotlist) :
           IF sl = <<>>
           THEN /\ Answer("C_GetSlotList", "CKR_OK", tokenPresent, FALSE, <<>>, sl)
                /\ slotlist' = sl
                /\ UNCHANGED returned
           ELSE \/ /\ Answer("C_GetSlotList", "CKR_HOST_MEMORY", tokenPresent,
                             FALSE, <<>>, sl)
                   /\ slotlist' = sl
                   /\ UNCHANGED returned
                \/ \E sizeonly \in BOOLEAN :
                     \E room \in IF sizeonly THEN {0} ELSE {0, MaxSlots} :
                       LET list == SlotList(sl, tokenPresent, 1)
                           rv == ListAnswer(list, sizeonly, room)
                       IN  /\ slotlist' = MarkSeen(sl, tokenPresent)
                           /\ Answer("C_GetSlotList",
                                     IF rv = "size" THEN "CKR_OK" ELSE rv,
                                     tokenPresent, sizeonly, list, sl)
                           /\ returned' =
                                 IF rv = "CKR_OK"
                                 THEN returned \cup {list[i] : i \in DOMAIN list}
                                 ELSE returned
       /\ UNCHANGED live
       /\ UNCHANGED notSlotVars

\* C_GetSlotInfo(slotID, pInfo); sloppy: sc_pkcs11_conf.init_sloppy,
\* probe: the state of the slot has expired and card_detect finds a card
\* ("present"), finds none ("absent"), or the state has not expired ("cached").
GetSlotInfo ==
    \/ NotLive("C_GetSlotInfo")
    \/ /\ live
       /\ \E slotID \in 1..MaxSlots, sloppy \in BOOLEAN,
             probe \in {"present", "absent", "cached"} :
           \E sl \in IF sloppy THEN Detected(slotlist) ELSE {slotlist} :
               IF slotID \notin DOMAIN sl
               THEN /\ slotlist' = sl
                    /\ Answer("C_GetSlotInfo", "CKR_SLOT_ID_INVALID", FALSE, FALSE,
                              <<>>, sl)
               ELSE /\ slotlist' =
                          IF sl[slotID].reader = NoReader \/ probe = "cached"
                          THEN sl
                          ELSE [sl EXCEPT ![slotID].token = (probe = "present")]
                    /\ Answer("C_GetSlotInfo", "CKR_OK", FALSE, FALSE, <<>>, sl)
       /\ UNCHANGED <<live, returned>>
       /\ UNCHANGED notSlotVars

\* C_InitToken(slotID, ...): the slot collection is read only.
InitToken ==
    \/ NotLive("C_InitToken")
    \/ /\ live
       /\ \E slotID \in 1..MaxSlots,
             rv \in {"CKR_OK", "CKR_FUNCTION_NOT_SUPPORTED", "CKR_SESSION_EXISTS"} :
           Answer("C_InitToken",
                  IF slotID \notin DOMAIN slotlist THEN "CKR_SLOT_ID_INVALID"
                  ELSE IF ~slotlist[slotID].token THEN "CKR_TOKEN_NOT_PRESENT"
                  ELSE rv,
                  FALSE, FALSE, <<>>, slotlist)
       /\ UNCHANGED <<live, slotlist, returned>>
       /\ UNCHANGED notSlotVars

\* C_WaitForSlotEvent(CKF_DONT_BLOCK): slot_find_changed runs
\* card_detect_all and looks for a slot with an event.
WaitForSlotEvent ==
    \/ NotLive("C_WaitForSlotEvent")
    \/ /\ live
       /\ \E sl \in Detected(slotlist) :
           /\ slotlist' = sl
           /\ Answer("C_WaitForSlotEvent",
                     IF sl # slotlist THEN "CKR_OK" ELSE "CKR_NO_EVENT",
                     FALSE, FALSE, <<>>, sl)
       /\ UNCHANGED <<live, returned>>
       /\ UNCHANGED notSlotVars

SlotsInit ==
    /\ SlotsIdle
    /\ InfoIdle
    /\ TokIdle
    /\ FileIdle
    /\ EnvIdle
    /\ RaceIdle
    /\ ModLoaded
    /\ KeyIdle
    /\ OpIdle

SlotsNext ==
    \/ SlotsInitialize
    \/ SlotsFinalize
    \/ GetSlotList
    \/ GetSlotInfo
    \/ InitToken
    \/ WaitForSlotEvent

\* One caller of the slot functions, one call at a time.
SpecSlots == SlotsInit /\ [][SlotsNext]_vars

----------------------------------------------------------------------------
(***************************************************************************)
(* Claims about the slot list                                              *)
(***************************************************************************)
\* The last call was a C_GetSlotList that ran the loop of lines 540-557.
ListWalked ==
    /\ listed.op = "C_GetSlotList"
    /\ listed.rv \in {"CKR_OK", "CKR_BUFFER_TOO_SMALL"}

\* The ids the last call put into found[].
Found == Range(listed.found)

\* Slot i is the first slot of a reader in sl.
FirstOfReader(sl, i) ==
    /\ sl[i].reader # NoReader
    /\ \A j \in 1..(i - 1) : sl[j].reader # sl[i].reader

\* Slot i has lost its reader and comes right after a slot that has one.
AfterReader(sl, i) ==
    /\ sl[i].reader = NoReader
    /\ i > 1
    /\ sl[i - 1].reader # NoReader

\* C19 as stated: without a presence filter C_GetSlotList lists exactly the
\* slots that are the first slot of their reader, have a token or were
\* seen; with the filter exactly the slots that have a token.
C19_Original ==
    ListWalked =>
        Found = {i \in DOMAIN listed.at :
                    \/ listed.at[i].token
                    \/ /\ ~listed.filter
                       /\ \/ FirstOfReader(listed.at, i)
                          \/ listed.at[i].seen}

\* C19: without a presence filter C_GetSlotList lists exactly the slots
\* that are the first slot of their reader, or have lost their reader and
\* follow a slot that has one, or have a token, or were seen; with the
\* filter exactly the slots that have a token. Without a filter every
\* reader that has slots has a slot in the list, and every slot the filter
\* would list is in the list.
C19_Selection ==
    ListWalked =>
        /\ Found = {i \in DOMAIN listed.at :
                       \/ listed.at[i].token
                       \/ /\ ~listed.filter
                          /\ \/ FirstOfReader(listed.at, i)
                             \/ AfterReader(listed.at, i)
                             \/ listed.at[i].seen}
        /\ ~listed.filter =>
              /\ \A rd \in ReadersOf(listed.at) :
                    \E i \in Found : listed.at[i].reader = rd
              /\ \A i \in DOMAIN listed.at : listed.at[i].token => i \in Found

\* C19 witness: two readers; the list has the empty first slot of one of
\* them, which was never seen, and leaves out its second slot.
C19_Witness ==
    /\ ListWalked /\ ~listed.filter
    /\ Cardinality(ReadersOf(listed.at)) = NumReaders
    /\ \E i \in Found, j \in DOMAIN listed.at \ Found :
          /\ listed.at[i].reader = listed.at[j].reader
          /\ ~listed.at[i].token /\ ~listed.at[i].seen

\* C20: a C_GetSlotList without a presence filter lists every id that a
\* C_GetSlotList of this lifetime of the module has returned, whatever
\* calls came between. (returned is taken after the call: the ids the
\* call itself returns are in its list.)
C20_Stable ==
    (ListWalked /\ ~listed.filter) => returned \subseteq Found

\* C20 witness: a size inquiry without a filter counts a slot that was
\* returned before and has lost its token and its reader.
C20_Witness ==
    /\ ListWalked /\ ~listed.filter /\ listed.sizeonly
    /\ \E i \in returned :
          /\ i \in Found
          /\ ~listed.at[i].token
          /\ listed.at[i].reader = NoReader
          /\ ~AfterReader(listed.at, i)

----------------------------------------------------------------------------
(***************************************************************************)
(* C_GetSlotInfo with its clock (pkcs11-global.c:588-677): the caller of   *)
(* the slot functions, with the expiry time of each slot.                  *)
(***************************************************************************)

\* now + 1000, line 657
SlotStateTTL == 1000

\* What get_current_time reads, in ms; 0 also when gettimeofday fails.
Clock == {0, 500, 1500}

\* What card_detect answers for the reader of the slot.
CardDetects == {"CKR_OK", "CKR_TOKEN_NOT_RECOGNIZED", "CKR_TOKEN_NOT_PRESENT",
                "CKR_GENERAL_ERROR"}

\* A C_GetSlotInfo that asks the reader every time.
Expired_Always(now, expires) == TRUE

\* line 648: the state of the slot has to be read again.
Expired(now, expires) == now >= expires \/ now = 0

\* lines 640-663 on the list sl with the expiry times exp: the slot, the
\* probe if the state has expired, the result code.
slot_info(sl, exp, slotID, now, detect) ==
    IF slotID \notin DOMAIN sl
    THEN [rv |-> "CKR_SLOT_ID_INVALID", probed |-> FALSE, sl |-> sl, exp |-> exp]
    ELSE IF sl[slotID].reader = NoReader
    THEN [rv |-> "CKR_OK", probed |-> FALSE, sl |-> sl, exp |-> exp]
    ELSE IF ~Expired(now, exp[slotID])
    THEN [rv |-> "CKR_OK", probed |-> FALSE, sl |-> sl, exp |-> exp]
    ELSE [rv |-> IF detect = "CKR_GENERAL_ERROR" THEN detect ELSE "CKR_OK",
          probed |-> TRUE,
          sl |-> IF detect = "CKR_GENERAL_ERROR" THEN sl
                 ELSE [sl EXCEPT ![slotID].token = (detect # "CKR_TOKEN_NOT_PRESENT")],
          exp |-> [exp EXCEPT ![slotID] = now + SlotStateTTL]]

\* The slots the caller asks about: any slot in its first call, the same
\* slot in the calls after it.
PolledSlots == IF polled.slot = 0 THEN 1..MaxSlots ELSE {polled.slot}

\* C_GetSlotInfo(slotID, pInfo) at the time now; sloppy:
\* sc_pkcs11_conf.init_sloppy.
SlotInfo ==
    \/ /\ ~live
       /\ polled' = [NoPoll EXCEPT !.rv = "CKR_CRYPTOKI_NOT_INITIALIZED"]
       /\ UNCHANGED <<slot_state_expires, slotVars>>
       /\ UNCHANGED notInfoVars
    \/ /\ live
       /\ \E slotID \in PolledSlots, now \in Clock, sloppy \in BOOLEAN :
           \E sl \in IF sloppy THEN Detected(slotlist) ELSE {slotlist} :
             \E detect \in IF slotID \in DOMAIN sl /\ sl[slotID].reader # NoReader
                            /\ Expired(now, slot_state_expires[slotID])
                         THEN CardDetects ELSE {"CKR_OK"} :
               LET res == slot_info(sl, slot_state_expires, slotID, now, detect)
               IN  /\ slotlist' = res.sl
                   /\ slot_state_expires' = res.exp
                   /\ polled' = [slot |-> slotID, now |-> now,
                                 reader |-> slotID \in DOMAIN sl
                                            /\ sl[slotID].reader # NoReader,
                                 expires |-> slot_state_expires[slotID],
                                 probed |-> res.probed, rv |-> res.rv]
       /\ UNCHANGED <<live, returned, listed>>
       /\ UNCHANGED notInfoVars

InfoInit ==
    /\ InfoIdle
    /\ TokIdle
    /\ FileIdle
    /\ EnvIdle
    /\ RaceIdle
    /\ SlotsIdle
    /\ ModLoaded
    /\ KeyIdle
    /\ OpIdle

InfoNext ==
    \/ SlotsInitialize
    \/ WaitForSlotEvent
    \/ SlotInfo

\* One caller of C_GetSlotInfo in one lifetime of the module.
SpecInfo == InfoInit /\ [][InfoNext]_vars

----------------------------------------------------------------------------
(***************************************************************************)
(* Claims about the cache of C_GetSlotInfo                                 *)
(***************************************************************************)
\* The last call was a C_GetSlotInfo that found its slot.
Polled == polled.rv \in {"CKR_OK", "CKR_GENERAL_ERROR"}

\* The slot of the last call had a reader.
PolledReader == polled.reader

\* The slot of the last call was probed before, at the time t, and the call
\* came at a time in [t, t + 1000).
WithinTTL ==
    /\ polled.expires # 0
    /\ polled.now >= polled.expires - SlotStateTTL
    /\ polled.now < polled.expires

\* C21 as stated: C_GetSlotInfo probes only when the time is at or past the
\* expiry or the clock reads 0; a probe at t sets the expiry to t + 1000;
\* a call at a time in [t, t + 1000) does not probe; a slot without reader
\* is never probed and the call succeeds.
C21_Original ==
    Polled =>
        /\ polled.probed =>
              /\ polled.now >= polled.expires \/ polled.now = 0
              /\ slot_state_expires[polled.slot] = polled.now + SlotStateTTL
        /\ WithinTTL => (~polled.probed /\ polled.rv = "CKR_OK")
        /\ ~PolledReader => (~polled.probed /\ polled.rv = "CKR_OK")

\* C21: C_GetSlotInfo probes the reader of the slot exactly when the slot
\* has a reader and the time is at or past the expiry or the clock reads
\* 0; a probe at t sets the expiry to t + 1000, a call without probe leaves
\* it; a call at a time in [t, t + 1000) at which the clock does not read
\* 0 does not probe and succeeds; a slot without reader is never probed
\* and the call succeeds.
C21_Cache ==
    Polled =>
        /\ polled.probed <=>
              /\ PolledReader
              /\ polled.now >= polled.expires \/ polled.now = 0
        /\ slot_state_expires[polled.slot] =
              IF polled.probed THEN polled.now + SlotStateTTL ELSE polled.expires
        /\ (WithinTTL /\ polled.now # 0) =>
              (~polled.probed /\ polled.rv = "CKR_OK")
        /\ ~PolledReader => (~polled.probed /\ polled.rv = "CKR_OK")

\* C21 witness: a call in the millisecond of the probe of a slot with a
\* reader, answered from the cache.
C21_Witness ==
    /\ Polled /\ PolledReader
    /\ polled.now = 500 /\ polled.expires = 500 + SlotStateTTL
    /\ ~polled.probed /\ polled.rv = "CKR_OK"
    /\ slot_state_expires[polled.slot] = polled.expires

(***************************************************************************)
(* SpecToken: C_InitToken (pkcs11-global.c:723-790) run by threads next to *)
(* C_OpenSession and C_CloseSession.  A thread walks through C_InitToken   *)
(* one statement group at a time, so that other threads can run between    *)
(* its session scan and its init_token call wherever the global lock lets  *)
(* them.  With no global lock (the application passed no CKF_OS_LOCKING_OK *)
(* and no mutex callbacks, and thereby promised to call from one thread at *)
(* a time) a call starts only while no other call is running.              *)
(***************************************************************************)
TokSlotIDs == 0..NumTokens

\* The number of sessions that reference the slot (line 774).
SessionsOf(slotID) == IF slotID \in 1..NumTokens THEN open[slotID] ELSE 0

RECURSIVE Sum(_, _)
Sum(f, n) == IF n = 0 THEN 0 ELSE f[n] + Sum(f, n - 1)

\* list_size(&sessions)
list_size == Sum(open, NumTokens)

\* The application keeps its promise of single-threaded use.
MayCall(t) == has_lock \/ \A u \in Threads \ {t} : tok_pc[u] = "idle"

\* C_InitToken is entered: the label buffer is allocated (lines 737-741).
TokCall(t) ==
    /\ tok_pc[t] = "idle"
    /\ MayCall(t)
    /\ \E slotID \in TokSlotIDs, label \in BOOLEAN :
         IF label
         THEN /\ tok_pc' = [tok_pc EXCEPT ![t] = "lock"]
              /\ tok_slot' = [tok_slot EXCEPT ![t] = slotID]
         ELSE UNCHANGED <<tok_pc, tok_slot>>
    /\ tok_rv' = tok_rv
    /\ UNCHANGED <<has_context, has_lock, lock_owner, open, labels>>
    /\ UNCHANGED notTokVars

\* sc_pkcs11_lock() skipped: the call goes on without the global lock.
TokLock_NoLock(t) ==
    /\ tok_pc[t] = "lock"
    /\ IF ~has_context
       THEN /\ tok_pc' = [tok_pc EXCEPT ![t] = "idle"]
            /\ tok_slot' = [tok_slot EXCEPT ![t] = 0]
            /\ tok_rv' = tok_rv
       ELSE /\ tok_pc' = [tok_pc EXCEPT ![t] = "slot"]
            /\ tok_rv' = [tok_rv EXCEPT ![t] = "CKR_OK"]
            /\ tok_slot' = tok_slot
    /\ UNCHANGED <<has_context, has_lock, lock_owner, open, labels>>
    /\ UNCHANGED notTokVars

\* rv = sc_pkcs11_lock() (lines 751-755, 1009-1022): without a context the
\* call returns; with a global lock the thread waits until it is free.
TokLock(t) ==
    /\ tok_pc[t] = "lock"
    /\ IF ~has_context
       THEN /\ tok_pc' = [tok_pc EXCEPT ![t] = "idle"]
            /\ tok_slot' = [tok_slot EXCEPT ![t] = 0]
            /\ UNCHANGED <<tok_rv, lock_owner>>
       ELSE /\ has_lock => lock_owner = NoThread
            /\ lock_owner' = IF has_lock THEN t ELSE lock_owner
            /\ tok_pc' = [tok_pc EXCEPT ![t] = "slot"]
            /\ tok_rv' = [tok_rv EXCEPT ![t] = "CKR_OK"]
            /\ tok_slot' = tok_slot
    /\ UNCHANGED <<has_context, has_lock, open, labels>>
    /\ UNCHANGED notTokVars

\* slot_get_token() and the framework test (lines 757-768).
TokSlot(t) ==
    /\ tok_pc[t] = "slot"
    /\ \E rv \in IF tok_slot[t] = 0 THEN {"CKR_SLOT_ID_INVALID"} ELSE {"CKR_OK", "CKR_TOKEN_NOT_PRESENT", "CKR_FUNCTION_NOT_SUPPORTED"} :
         /\ tok_rv' = [tok_rv EXCEPT ![t] = rv]
         /\ tok_pc' = [tok_pc EXCEPT ![t] = IF rv = "CKR_OK" THEN "scan" ELSE "out"]
    /\ UNCHANGED <<tok_slot, has_context, has_lock, lock_owner, open, labels>>
    /\ UNCHANGED notTokVars

\* The loop over the sessions (lines 771-777).
TokScan(t) ==
    /\ tok_pc[t] = "scan"
    /\ IF SessionsOf(tok_slot[t]) > 0
       THEN /\ tok_rv' = [tok_rv EXCEPT ![t] = "CKR_SESSION_EXISTS"]
            /\ tok_pc' = [tok_pc EXCEPT ![t] = "out"]
       ELSE /\ tok_rv' = tok_rv
            /\ tok_pc' = [tok_pc EXCEPT ![t] = "init"]
    /\ UNCHANGED <<tok_slot, has_context, has_lock, lock_owner, open, labels>>
    /\ UNCHANGED notTokVars

\* rv = slot->p11card->framework->init_token(...) (line 779).
TokInit(t) ==
    /\ tok_pc[t] = "init"
    /\ \E rv \in {"CKR_OK", "CKR_PIN_INCORRECT"} :
         /\ tok_rv' = [tok_rv EXCEPT ![t] = rv]
         /\ labels' = IF rv = "CKR_OK" THEN [labels EXCEPT ![tok_slot[t]] = TRUE] ELSE labels
    /\ tok_pc' = [tok_pc EXCEPT ![t] = "out"]
    /\ UNCHANGED <<tok_slot, has_context, has_lock, lock_owner, open>>
    /\ UNCHANGED notTokVars

\* out: sc_pkcs11_unlock(); return rv (lines 785-789, 1024-1033).
TokOut(t) ==
    /\ tok_pc[t] = "out"
    /\ lock_owner' = IF has_lock THEN NoThread ELSE lock_owner
    /\ tok_pc' = [tok_pc EXCEPT ![t] = "idle"]
    /\ tok_slot' = [tok_slot EXCEPT ![t] = 0]
    /\ tok_rv' = [tok_rv EXCEPT ![t] = "none"]
    /\ UNCHANGED <<has_context, has_lock, open, labels>>
    /\ UNCHANGED notTokVars

\* C_OpenSession on a slot with a token: under the global lock a session that
\* references the slot is added to the list.
TokOpenSession(t) ==
    /\ tok_pc[t] = "idle"
    /\ MayCall(t)
    /\ has_context
    /\ lock_owner = NoThread
    /\ list_size < MaxSessions
    /\ \E slotID \in 1..NumTokens :
         open' = [open EXCEPT ![slotID] = @ + 1]
    /\ UNCHANGED <<tok_pc, tok_slot, tok_rv, has_context, has_lock, lock_owner, labels>>
    /\ UNCHANGED notTokVars

\* C_CloseSession: under the global lock the session leaves the list.
TokCloseSession(t) ==
    /\ tok_pc[t] = "idle"
    /\ MayCall(t)
    /\ has_context
    /\ lock_owner = NoThread
    /\ \E slotID \in 1..NumTokens :
         /\ open[slotID] > 0
         /\ open' = [open EXCEPT ![slotID] = @ - 1]
    /\ UNCHANGED <<tok_pc, tok_slot, tok_rv, has_context, has_lock, lock_owner, labels>>
    /\ UNCHANGED notTokVars

\* The module is loaded and either not initialized, or initialized with or
\* without a global lock (sc_pkcs11_init_lock, lines 955-1007).
TokInitial ==
    /\ tok_pc = [t \in Threads |-> "idle"]
    /\ tok_slot = [t \in Threads |-> 0]
    /\ tok_rv = [t \in Threads |-> "none"]
    /\ has_context \in BOOLEAN
    /\ has_lock \in IF has_context THEN BOOLEAN ELSE {FALSE}
    /\ lock_owner = NoThread
    /\ open = [i \in 1..NumTokens |-> 0]
    /\ labels = [i \in 1..NumTokens |-> FALSE]

TokenInit ==
    /\ TokInitial
    /\ FileIdle
    /\ EnvIdle
    /\ RaceIdle
    /\ KeyIdle
    /\ ModLoaded
    /\ OpIdle
    /\ SlotsIdle
    /\ InfoIdle

TokenNext ==
    \E t \in Threads :
        \/ TokCall(t)
        \/ TokLock(t)
        \/ TokSlot(t)
        \/ TokScan(t)
        \/ TokInit(t)
        \/ TokOut(t)
        \/ TokOpenSession(t)
        \/ TokCloseSession(t)

SpecToken == TokenInit /\ [][TokenNext]_vars

(***************************************************************************)
(* C22.  C_InitToken never invokes the framework's init_token while a      *)
(* session of the list references the target slot; it then returns         *)
(* CKR_SESSION_EXISTS and changes neither the sessions nor the token.  The *)
(* thread holds the global lock, where there is one, from before the scan  *)
(* until after init_token, no step of C_InitToken other than init_token    *)
(* touches sessions or token, and a thread outside C_InitToken does not    *)
(* hold the lock.                                                          *)
(***************************************************************************)
InInitToken(t) == tok_pc[t] \in {"slot", "scan", "init", "out"}

C22_State ==
    \A t \in Threads :
        /\ tok_pc[t] = "init" => SessionsOf(tok_slot[t]) = 0
        /\ (has_lock /\ InInitToken(t)) => lock_owner = t
        /\ tok_pc[t] \in {"idle", "lock"} => lock_owner # t

C22_Step ==
    \A t \in Threads :
        /\ (tok_pc[t] \in {"lock", "slot", "scan", "out"} /\ tok_pc'[t] # tok_pc[t]) => UNCHANGED <<open, labels>>
        /\ (tok_pc[t] = "scan" /\ tok_pc'[t] = "out") => tok_rv'[t] = "CKR_SESSION_EXISTS"
        /\ (tok_pc[t] = "scan" /\ tok_pc'[t] # "scan" /\ SessionsOf(tok_slot[t]) > 0) => tok_pc'[t] = "out"
        /\ (tok_pc[t] = "out" /\ tok_pc'[t] = "idle") => lock_owner' = NoThread

C22_InitTokenGuard == []C22_State /\ [][C22_Step]_vars

\* A C_InitToken is about to return CKR_SESSION_EXISTS for an open session,
\* on a module with a global lock, after a token was initialized, while
\* another thread waits for the lock.
C22_Witness ==
    /\ has_lock
    /\ \E t \in Threads :
         /\ tok_pc[t] = "out"
         /\ tok_rv[t] = "CKR_SESSION_EXISTS"
         /\ SessionsOf(tok_slot[t]) > 0
         /\ \E u \in Threads \ {t} : tok_pc[u] = "lock"
    /\ \E i \in 1..NumTokens : labels[i]

(***************************************************************************)
(* C23.  Every entry point compares the process id with the one recorded   *)
(* by C_Initialize before it uses inherited state: a call other than       *)
(* C_Initialize that a forked child makes on the module its parent         *)
(* initialized with a global lock does not lock that mutex.                *)
(* (Only C_Initialize compares the pids, lines 299-313; sc_pkcs11_lock,    *)
(* lines 1009-1022, tests `context` alone.)                                *)
(***************************************************************************)
InheritedCall ==
    /\ done.op \in {"C_Finalize", "C_WaitForSlotEvent", "C_OpenSession"}
    /\ done.alone
    /\ done.entry.forked
    /\ done.entry.context
    /\ done.entry.global_lock = "mutex"

C23_PidCompared == InheritedCall => ~Stepped("lock") /\ ~Stepped("free_lock")

(***************************************************************************)
(* C24.  C_Initialize and C_Finalize are serialized by one mutex: on a     *)
(* module with a global lock no C_Finalize of one thread is tearing the    *)
(* module down while a C_Initialize of another thread has created the      *)
(* context but not yet the session and slot lists.                         *)
(* (C_Initialize runs under c_initialize_m, line 327; C_Finalize tests     *)
(* `context` at line 408 and takes global_lock at line 411.)               *)
(***************************************************************************)
C24_Serialized ==
    \A t \in Procs, u \in Procs :
        ~(global_lock = "mutex" /\ api_pc[t] = "F_teardown" /\ api_pc[u] = "I_lists")

(***************************************************************************)
(* C25.  The session list and the slot list are read and changed only by   *)
(* a thread that holds the global lock: when a lock was negotiated, the    *)
(* thread of a C_Initialize that is about to create the lists and to       *)
(* detect the cards owns it.                                               *)
(* (Lines 358-372 run under c_initialize_m only.)                          *)
(***************************************************************************)
C25_ListsUnderLock ==
    \A t \in Procs :
        (api_pc[t] = "I_lists" /\ global_lock = "mutex") => global_owner = t

(***************************************************************************)
(* C26.  One call of use_key, sc_pkcs15_encrypt_sym or                     *)
(* sc_pkcs15_decrypt_sym invokes the device primitive at most twice and    *)
(* the cached-PIN re-validation at most once, runs at most two passes (the *)
(* second only after the re-validation) and then returns, whatever the     *)
(* device and the PIN cache answer.                                        *)
(***************************************************************************)
C26_Counts ==
    \A t \in Threads :
        (log[t] # <<>> /\ log[t][1] \in {"use_key"} \cup SymFns) =>
            /\ Count(log[t], "prim") <= 2
            /\ Count(log[t], "reval") <= 1
            /\ Len(passres[t]) <= 2
            /\ Count(log[t], "prim") <= Len(passres[t])
            /\ Len(passres[t]) = 2 => Count(log[t], "reval") = 1
            /\ Len(log[t]) <= 12

C26_Returns == \A t \in Threads : (pc[t] # "idle") ~> (pc[t] = "idle")

C26_LoopEnds == []C26_Counts /\ C26_Returns

\* A streaming call of a symmetric handler that invoked the primitive twice,
\* around one re-validation, and returned the second result.
C26_Witness ==
    \E t \in Threads :
        /\ pc[t] = "idle"
        /\ log[t] = <<"decrypt_sym", "prim", "reval", "prim">>
        /\ passres[t] = <<SSNS, SSNS>>
        /\ ret[t] = SSNS

(***************************************************************************)
(* C27.  Within a pass of use_key the steps run in the order select-file   *)
(* (only for a key with a path or an AID), set-security-environment,       *)
(* primitive; a step runs only after the previous one succeeded, and the   *)
(* result of the first failing step (else of the primitive) is the result  *)
(* of the pass.                                                            *)
(***************************************************************************)
LastStep(t) == log[t][Len(log[t])]

C27_State ==
    \A t \in Threads :
        fn[t] = "use_key" =>
            /\ keyfile[t] # "device" => Count(log[t], "select") = 0
            /\ pc[t] = "setenv" =>
                  /\ r[t] = SC_SUCCESS
                  /\ LastStep(t) = (IF keyfile[t] = "device" THEN "select" ELSE "pass")
                  /\ keyfile[t] # "invalid"
            /\ pc[t] = "prim" => r[t] = SC_SUCCESS /\ LastStep(t) = "setenv"

C27_Step ==
    \A t \in Threads :
        (fn[t] = "use_key" /\ pc[t] \in {"select", "setenv", "prim"} /\ pc'[t] # pc[t]) =>
            IF r'[t] = SC_SUCCESS /\ pc[t] # "prim"
            THEN /\ pc'[t] = (IF pc[t] = "select" THEN "setenv" ELSE "prim")
                 /\ passres'[t] = passres[t]
            ELSE /\ pc'[t] \in {"reval", "unlock"}
                 /\ passres'[t] = Append(passres[t], r'[t])
                 /\ (pc[t] = "select" /\ keyfile[t] = "none") => r'[t] = r[t]

C27_PassOrder == []C27_State /\ [][C27_Step]_vars

\* A call whose only pass selected the key file and failed to push the
\* environment: no primitive, and that error is returned.
C27_Witness ==
    \E t \in Threads :
        /\ LastCall(t, "use_key")
        /\ log[t] = <<"use_key", "lock", "pass", "select", "setenv", "unlock">>
        /\ passres[t] = <<SC_ERROR_CARD_CMD_FAILED>>
        /\ ret[t] = SC_ERROR_CARD_CMD_FAILED

C29_State ==
    \A t \in Threads :
        fn[t] \in SymFns =>
            /\ ~begin[t] =>
                  /\ pc[t] \in {"prim", "reval"}
                  /\ Count(log[t], "select") = 0
                  /\ Count(log[t], "setenv") = 0
            /\ (begin[t] /\ pc[t] = "prim") => r[t] = SC_SUCCESS /\ LastStep(t) = "setenv"
            /\ (begin[t] /\ pc[t] = "setenv" /\ keyfile[t] = "device") =>
                  r[t] = SC_SUCCESS /\ LastStep(t) = "select"
            /\ pc[t] = "prim" => r[t] = SC_SUCCESS

C29_Step ==
    \A t \in Threads :
        (fn[t] \in SymFns /\ log'[t] # log[t]) =>
            LET added == log'[t][Len(log'[t])]
            IN  /\ Len(log'[t]) = Len(log[t]) + 1
                /\ ~begin[t] => added \in {"prim", "reval"}
                /\ (begin[t] /\ added = "prim") => LastStep(t) = "setenv"
                /\ (added = "prim" /\ revalidated_cached_pin[t]) =>
                      LastStep(t) = (IF begin[t] THEN "setenv" ELSE "reval")

C29_BeginOnly == []C29_State /\ [][C29_Step]_vars

\* A begin call returned after two full passes: selection, push and
\* primitive before and after the re-validation.
C29_Witness ==
    \E t \in Threads :
        /\ pc[t] = "idle"
        /\ log[t] = <<"encrypt_sym", "select", "setenv", "prim", "reval",
                      "select", "setenv", "prim">>
        /\ ret[t] = 0

(***************************************************************************)
(* SpecFile: use_key on keys whose paths are byte strings.  Each step is   *)
(* one whole call: select_key_file (pkcs15-sec.c:77-124) is computed on    *)
(* the bytes, the rest of the call is the loop of lines 142-165.           *)
(***************************************************************************)
PathBytes == {1, 2}

RECURSIVE ByteStrings(_)
ByteStrings(n) ==
    IF n = 0 THEN {<<>>}
    ELSE ByteStrings(n - 1) \cup
         {Append(v, b) : v \in {w \in ByteStrings(n - 1) : Len(w) = n - 1}, b \in PathBytes}

\* The paths a key object can carry.
KeyPaths == [value : ByteStrings(MaxPathLen), aid : BOOLEAN]

\* p15card->file_app->path when file_app is not NULL
AppPath == [value |-> <<3, 4>>, aid |-> FALSE]

\* sc_append_path: the bytes of the file id after those of the path
sc_append_path(path, file_id) == [path EXCEPT !.value = @ \o file_id.value]

\* A resolution that takes the first two bytes of a long path as the file id.
select_key_file_FirstTwo(orig_path, file_app) ==
    LET len == Len(orig_path.value)
    IN  IF len = 0 /\ orig_path.aid
        THEN [r |-> SC_SUCCESS, path |-> orig_path, file_ref |-> NoPath,
              ref_present |-> FALSE]
        ELSE IF len = 2 /\ file_app
        THEN [r |-> SC_SUCCESS, path |-> sc_append_path(AppPath, orig_path),
              file_ref |-> orig_path, ref_present |-> TRUE]
        ELSE IF len > 2
        THEN [r |-> SC_SUCCESS, path |-> orig_path,
              file_ref |-> [value |-> SubSeq(orig_path.value, 1, 2), aid |-> FALSE],
              ref_present |-> TRUE]
        ELSE [r |-> SC_ERROR_INVALID_ARGUMENTS, path |-> NoPath,
              file_ref |-> NoPath, ref_present |-> FALSE]

\* select_key_file up to its sc_select_file call (lines 89-118): the path
\* to select, senv->file_ref and SC_SEC_ENV_FILE_REF_PRESENT, or the error.
select_key_file(orig_path, file_app) ==
    LET len == Len(orig_path.value)
    IN  IF len = 0 /\ orig_path.aid
        THEN [r |-> SC_SUCCESS, path |-> orig_path, file_ref |-> NoPath,
              ref_present |-> FALSE]
        ELSE IF len = 2 /\ file_app
        THEN [r |-> SC_SUCCESS, path |-> sc_append_path(AppPath, orig_path),
              file_ref |-> orig_path, ref_present |-> TRUE]
        ELSE IF len > 2
        THEN [r |-> SC_SUCCESS, path |-> orig_path,
              file_ref |-> [value |-> SubSeq(orig_path.value, len - 1, len), aid |-> FALSE],
              ref_present |-> TRUE]
        ELSE [r |-> SC_ERROR_INVALID_ARGUMENTS, path |-> NoPath,
              file_ref |-> NoPath, ref_present |-> FALSE]

\* One pass of use_key (lines 143-154) on a key with this path: the device
\* calls and the result r of the pass.
KeyPass(orig_path, file_app) ==
    IF Len(orig_path.value) = 0 /\ ~orig_path.aid
    THEN {[dev |-> <<"sc_set_security_env">>, r |-> e] : e \in DeviceErrors}
         \cup {[dev |-> <<"sc_set_security_env", "card_command">>, r |-> x] : x \in PrimResults}
    ELSE IF select_key_file(orig_path, file_app).r # SC_SUCCESS
    THEN {[dev |-> <<>>, r |-> select_key_file(orig_path, file_app).r]}
    ELSE {[dev |-> <<"sc_select_file">>, r |-> e] : e \in DeviceErrors}
         \cup {[dev |-> <<"sc_select_file", "sc_set_security_env">>, r |-> e] : e \in DeviceErrors}
         \cup {[dev |-> <<"sc_select_file", "sc_set_security_env", "card_command">>, r |-> x] : x \in PrimResults}

\* use_key (lines 139-169) on a key with this path: every way the call can go.
use_key_file(orig_path, file_app) ==
    {[dev |-> <<"sc_lock">>, r |-> e] : e \in LockErrors}
    \cup {[dev |-> <<"sc_lock">> \o p.dev \o <<"sc_unlock">>, r |-> p.r] :
              p \in Retry(KeyPass(orig_path, file_app), KeyPass(orig_path, file_app))}

\* use_key, select_key_file and the handlers keep nothing between two
\* calls: one call is followed.
FileCanCall == resolved.op = "none"

\* A call of use_key.
UseKeyFile ==
    /\ FileCanCall
    /\ \E orig_path \in KeyPaths, file_app \in BOOLEAN :
         \E u \in use_key_file(orig_path, file_app) :
            LET sel == select_key_file(orig_path, file_app)
                reached == \E i \in DOMAIN u.dev : u.dev[i] = "sc_select_file"
            IN  resolved' =
                  [op |-> "use_key", orig |-> orig_path, app |-> file_app,
                   r |-> u.r, dev |-> u.dev,
                   selected |-> IF reached THEN sel.path ELSE NoPath,
                   file_ref |-> IF reached THEN sel.file_ref ELSE NoPath,
                   ref_present |-> reached /\ sel.ref_present,
                   target |-> NoPath, has_param |-> FALSE, param |-> NoPath]
    /\ UNCHANGED notFileVars

\* sc_pkcs15_unwrap lines 447-469, sc_pkcs15_wrap lines 540-569: the path
\* stored in target_file_id for a target key with this path, or the error.
target_file(tkey_path, file_app) ==
    LET len == Len(tkey_path.value)
    IN  IF len = 0 /\ tkey_path.aid
        THEN [r |-> SC_SUCCESS, target_file_id |-> tkey_path]
        ELSE IF len = 2 /\ file_app
        THEN [r |-> SC_SUCCESS, target_file_id |-> sc_append_path(AppPath, tkey_path)]
        ELSE IF len > 2
        THEN [r |-> SC_SUCCESS,
              target_file_id |-> [value |-> SubSeq(tkey_path.value, len - 1, len),
                                  aid |-> FALSE]]
        ELSE [r |-> SC_ERROR_INVALID_ARGUMENTS, target_file_id |-> NoPath]

\* The paths of the wrapping keys: one of each shape.
WrapKeyPaths ==
    {p \in KeyPaths : p.value \in {<<>>, <<1>>, <<1, 2>>, <<1, 2, 1>>}}

\* What sc_pkcs15_unwrap and sc_pkcs15_wrap return before the target path is
\* looked at (key usage, key and target type, format_senv), and what
\* sc_get_encoding_flags returns after it.
KeyChecks == {SC_SUCCESS, SC_ERROR_NOT_ALLOWED, SC_ERROR_NOT_SUPPORTED}
EncodingChecks == {SC_SUCCESS, SC_ERROR_NOT_SUPPORTED}

\* A call of sc_pkcs15_unwrap or sc_pkcs15_wrap: the target file parameter
\* (SC_SEC_ENV_PARAM_TARGET_FILE) is added to the environment, then use_key
\* runs on the wrapping key.
WrapUnwrap ==
    /\ FileCanCall
    /\ \E op \in {"wrap", "unwrap"}, orig_path \in WrapKeyPaths, tkey_path \in KeyPaths, file_app \in BOOLEAN, pre \in KeyChecks, enc \in EncodingChecks :
         LET tf == target_file(tkey_path, file_app)
             sel == select_key_file(orig_path, file_app)
             call == [NoResolve EXCEPT !.op = op, !.orig = orig_path,
                                       !.app = file_app, !.target = tkey_path]
         IN  IF pre < 0
             THEN enc = SC_SUCCESS /\ resolved' = [call EXCEPT !.r = pre]
             ELSE IF tf.r < 0
             THEN enc = SC_SUCCESS /\ resolved' = [call EXCEPT !.r = tf.r]
             ELSE IF enc < 0
             THEN resolved' = [call EXCEPT !.r = enc, !.has_param = TRUE,
                                           !.param = tf.target_file_id]
             ELSE \E u \in use_key_file(orig_path, file_app) :
                     LET reached == \E i \in DOMAIN u.dev : u.dev[i] = "sc_select_file"
                     IN  resolved' =
                           [call EXCEPT !.r = u.r, !.dev = u.dev,
                                        !.selected = IF reached THEN sel.path ELSE NoPath,
                                        !.file_ref = IF reached THEN sel.file_ref ELSE NoPath,
                                        !.ref_present = reached /\ sel.ref_present,
                                        !.has_param = TRUE,
                                        !.param = tf.target_file_id]
    /\ UNCHANGED notFileVars

FileInit ==
    /\ FileIdle
    /\ EnvIdle
    /\ RaceIdle
    /\ KeyIdle
    /\ ModLoaded
    /\ OpIdle
    /\ SlotsIdle
    /\ InfoIdle
    /\ TokIdle

FileNext == UseKeyFile \/ WrapUnwrap

SpecFile == FileInit /\ [][FileNext]_vars

(***************************************************************************)
(* C30.  Key-file resolution in use_key: no selection for a key with an    *)
(* empty path and no AID; an empty path with an AID is selected as it is,  *)
(* without file reference; a 2-byte path with an application directory     *)
(* selects the directory's path followed by the 2 bytes, with the 2 bytes  *)
(* as file reference; a path of more than 2 bytes is selected as it is,    *)
(* with its last 2 bytes as file reference; any other path gives           *)
(* SC_ERROR_INVALID_ARGUMENTS with no selection, no environment, no        *)
(* primitive, and the device lock released.                                *)
(***************************************************************************)
DevCalled(x) == \E i \in DOMAIN resolved.dev : resolved.dev[i] = x

InWrap == resolved.op \in {"wrap", "unwrap"}

C31_SameRule ==
    LET asKey == select_key_file(resolved.target, resolved.app)
        own == select_key_file(resolved.orig, resolved.app)
    IN  InWrap =>
          /\ resolved.has_param => resolved.param = asKey.file_ref
          /\ (resolved.r = SC_ERROR_INVALID_ARGUMENTS /\ ~resolved.has_param) =>
                resolved.dev = <<>>
          /\ DevCalled("sc_select_file") => resolved.selected = own.path

\* The parts of the statement that hold: an unrecognised shape is refused
\* before any device call, a path of more than two bytes attaches the file
\* reference of select_key_file, and only the wrapping key's file is
\* selected.
C31_AbsoluteOnly ==
    LET asKey == select_key_file(resolved.target, resolved.app)
        own == select_key_file(resolved.orig, resolved.app)
    IN  InWrap =>
          /\ (resolved.has_param /\ Len(resolved.target.value) > 2) =>
                resolved.param = asKey.file_ref
          /\ (resolved.has_param /\ Len(resolved.target.value) = 2) =>
                resolved.param = asKey.path
          /\ (resolved.r = SC_ERROR_INVALID_ARGUMENTS /\ ~resolved.has_param) =>
                resolved.dev = <<>>
          /\ (asKey.r < 0 /\ resolved.r # SC_ERROR_INVALID_ARGUMENTS) =>
                ~resolved.has_param /\ resolved.dev = <<>>
          /\ DevCalled("sc_select_file") => resolved.selected = own.path


----------------------------------------------------------------------------
(***************************************************************************)
(* SpecEnv: a security environment is built by format_senv                 *)
(* (pkcs15-sec.c:172-284) and parameters are added to it by                *)
(* sec_env_add_param (pkcs15-sec.c:37-53).                                 *)
(***************************************************************************)
\* The key objects format_senv reads: type, native, modulus_length /
\* field_length / value_len (bits), key_type of a secret key, key_reference.
EnvKeys ==
    {k \in [type : KeyTypes, native : BOOLEAN, bits : KeyBits,
            key_type : {"CKK_AES", "CKK_GENERIC_SECRET"}, key_reference : {-1, 1}] :
        k.type # "SKEY_GENERIC" => k.key_type = "CKK_GENERIC_SECRET"}

\* SC_ALGORITHM_<name>
Algorithms == {"RSA", "GOSTR3410", "EDDSA", "XEDDSA", "EC", "AES"}

\* The algorithms a card advertises (card->algorithms): at most two entries.
AlgorithmInfos == [algorithm : Algorithms, key_length : KeyBits]
CardAlgorithms == {a \in SUBSET AlgorithmInfos : Cardinality(a) <= 2}

\* sc_card_find_rsa_alg, sc_card_find_ec_alg, ..., sc_card_find_alg: an
\* entry of the card for this algorithm and this key length, if there is one.
sc_card_find_alg(algorithms, algorithm, key_length) ==
    {a \in algorithms : a.algorithm = algorithm /\ a.key_length = key_length}

\* An environment builder that takes any entry of the algorithm and its
\* key length.
format_senv_out_AnySize(k, algorithms) ==
    LET algorithm == CASE k.type = "PRKEY_RSA" -> "RSA"
                       [] k.type = "PRKEY_GOSTR3410" -> "GOSTR3410"
                       [] k.type = "PRKEY_EDDSA" -> "EDDSA"
                       [] k.type = "PRKEY_XEDDSA" -> "XEDDSA"
                       [] k.type = "PRKEY_EC" -> "EC"
                       [] k.type = "SKEY_GENERIC" -> "AES"
                       [] OTHER -> "none"
        found == {a \in algorithms : a.algorithm = algorithm}
    IN  IF TypeClass(k.type) \notin {"PRKEY", "SKEY"}
        THEN [r |-> SC_ERROR_NOT_ALLOWED, senv |-> NoEnv]
        ELSE IF ~k.native \/ algorithm = "none" \/ found = {}
                \/ (k.type = "SKEY_GENERIC" /\ k.key_type # "CKK_AES")
        THEN [r |-> SC_ERROR_NOT_SUPPORTED, senv |-> NoEnv]
        ELSE [r |-> SC_SUCCESS,
              senv |-> [NoEnv EXCEPT !.algorithm = algorithm,
                                     !.key_size_bits = (CHOOSE a \in found : TRUE).key_length,
                                     !.flags = {"ALG_PRESENT"}]]

\* format_senv (lines 172-284): the result and *senv_out.
format_senv_out(k, algorithms) ==
    LET algorithm == CASE k.type = "PRKEY_RSA" -> "RSA"
                       [] k.type = "PRKEY_GOSTR3410" -> "GOSTR3410"
                       [] k.type = "PRKEY_EDDSA" -> "EDDSA"
                       [] k.type = "PRKEY_XEDDSA" -> "XEDDSA"
                       [] k.type = "PRKEY_EC" -> "EC"
                       [] k.type = "SKEY_GENERIC" -> "AES"
                       [] OTHER -> "none"
        ec == IF k.type = "PRKEY_EC" THEN {"ALG_REF_PRESENT"} ELSE {}
        ref == IF k.key_reference >= 0 THEN {"KEY_REF_PRESENT"} ELSE {}
    IN  IF TypeClass(k.type) \notin {"PRKEY", "SKEY"}
        THEN [r |-> SC_ERROR_NOT_ALLOWED, senv |-> NoEnv]
        ELSE IF ~k.native
        THEN [r |-> SC_ERROR_NOT_SUPPORTED, senv |-> NoEnv]
        ELSE IF algorithm = "none"
        THEN [r |-> SC_ERROR_NOT_SUPPORTED, senv |-> NoEnv]
        ELSE IF k.type = "SKEY_GENERIC" /\ k.key_type # "CKK_AES"
        THEN [r |-> SC_ERROR_NOT_SUPPORTED, senv |-> NoEnv]
        ELSE IF sc_card_find_alg(algorithms, algorithm, k.bits) = {}
        THEN [r |-> SC_ERROR_NOT_SUPPORTED, senv |-> NoEnv]
        ELSE [r |-> SC_SUCCESS,
              senv |-> [NoEnv EXCEPT
                          !.algorithm = algorithm,
                          !.key_size_bits = k.bits,
                          !.flags = {"ALG_PRESENT"} \cup ec \cup ref,
                          !.algorithm_ref = IF k.type = "PRKEY_EC" THEN k.bits ELSE 0,
                          !.key_ref = IF k.key_reference >= 0
                                      THEN <<k.key_reference % 256>> ELSE <<>>]]

\* The parameters the handlers add: the target file of wrap and unwrap
\* (&target_file_id) and the IV, whose pointer `param` comes from the caller
\* and may be NULL.
EnvParams ==
    {[param_type |-> "TARGET_FILE", value |-> "target_file_id"],
     [param_type |-> "IV", value |-> "param"],
     [param_type |-> "IV", value |-> "NULL"]}

\* The positions of params that sec_env_add_param takes for free.
FreeParams(params) == {i \in 1..SC_SEC_ENV_MAX_PARAMS : params[i].value = "NULL"}

\* An add that always writes the first position.
sec_env_add_param_First(params, p) ==
    [r |-> SC_SUCCESS, params |-> [params EXCEPT ![1] = p]]

\* sec_env_add_param (lines 37-53) with se and p not NULL, as every caller
\* passes them: the result and se->params.
sec_env_add_param(params, p) ==
    IF FreeParams(params) = {}
    THEN [r |-> SC_ERROR_TOO_MANY_OBJECTS, params |-> params]
    ELSE LET i == CHOOSE j \in FreeParams(params) : \A m \in FreeParams(params) : j <= m
         IN  [r |-> SC_SUCCESS, params |-> [params EXCEPT ![i] = p]]

\* A handler calls format_senv on a key and a card.
FormatSenv ==
    /\ envcall.fn = "none"
    /\ \E k \in EnvKeys, algorithms \in CardAlgorithms :
         LET f == format_senv_out(k, algorithms)
         IN  /\ senv' = f.senv
             /\ envcall' = [NoEnvCall EXCEPT !.fn = "format_senv", !.key = k,
                                             !.caps = algorithms, !.r = f.r]
    /\ UNCHANGED notEnvVars

\* sec_env_add_param is called on the environment format_senv has built, as
\* long as no call has failed.
AddParam ==
    /\ envcall.fn # "none"
    /\ envcall.r = SC_SUCCESS
    /\ envcall.adds <= SC_SEC_ENV_MAX_PARAMS
    /\ \E p \in EnvParams :
         LET a == sec_env_add_param(senv.params, p)
         IN  /\ senv' = [senv EXCEPT !.params = a.params]
             /\ envcall' = [fn |-> "sec_env_add_param", key |-> NoKey, caps |-> {},
                            r |-> a.r, p |-> p, before |-> senv.params,
                            added |-> IF a.r = SC_SUCCESS
                                      THEN Append(envcall.added, p)
                                      ELSE envcall.added,
                            adds |-> envcall.adds + 1]
    /\ UNCHANGED notEnvVars

EnvInit ==
    /\ EnvIdle
    /\ RaceIdle
    /\ KeyIdle
    /\ ModLoaded
    /\ OpIdle
    /\ SlotsIdle
    /\ InfoIdle
    /\ TokIdle
    /\ FileIdle

EnvNext == FormatSenv \/ AddParam

SpecEnv == EnvInit /\ [][EnvNext]_vars

(***************************************************************************)
(* C32.  When format_senv succeeds, the environment has                    *)
(* SC_SEC_ENV_ALG_PRESENT, the algorithm of the key's type and             *)
(* key_size_bits equal to the key's own size, and the card advertises that *)
(* algorithm with that size; a native key of a supported type for which    *)
(* the card advertises no such entry gets SC_ERROR_NOT_SUPPORTED.          *)
(***************************************************************************)
AlgorithmTag ==
    [t \in KeyTypes |->
       CASE t = "PRKEY_RSA" -> "RSA"
         [] t = "PRKEY_GOSTR3410" -> "GOSTR3410"
         [] t = "PRKEY_EDDSA" -> "EDDSA"
         [] t = "PRKEY_XEDDSA" -> "XEDDSA"
         [] t = "PRKEY_EC" -> "EC"
         [] t = "SKEY_GENERIC" -> "AES"
         [] OTHER -> "unsupported"]

C32_Environment ==
    envcall.fn = "format_senv" =>
      LET k == envcall.key
          wanted == [algorithm |-> AlgorithmTag[k.type], key_length |-> k.bits]
      IN  /\ envcall.r = SC_SUCCESS =>
                /\ "ALG_PRESENT" \in senv.flags
                /\ senv.algorithm = AlgorithmTag[k.type]
                /\ senv.algorithm \in Algorithms
                /\ senv.key_size_bits = k.bits
                /\ wanted \in envcall.caps
          /\ (AlgorithmTag[k.type] # "unsupported" /\ wanted \notin envcall.caps) =>
                envcall.r = SC_ERROR_NOT_SUPPORTED

\* An EC key of MaxKeyBits bits on a card that advertises EC with the other
\* size and with this one: the environment carries MaxKeyBits.
C32_Witness ==
    /\ envcall.fn = "format_senv"
    /\ envcall.r = SC_SUCCESS
    /\ envcall.key.type = "PRKEY_EC"
    /\ envcall.key.bits = MaxKeyBits
    /\ envcall.caps = {[algorithm |-> "EC", key_length |-> MaxKeyBits - 1],
                       [algorithm |-> "EC", key_length |-> MaxKeyBits]}
    /\ senv.key_size_bits = MaxKeyBits

(***************************************************************************)
(* C33.  sc_pkcs15_compute_signature expects ceil(modulus_bits / 8) bytes  *)
(* for RSA, twice that for GOST and 2 * ceil(field_bits / 8) for EC, EdDSA *)
(* and XEdDSA; a call that comes to the length test with an output length  *)
(* below that value returns SC_ERROR_BUFFER_TOO_SMALL, and no call with    *)
(* such a length reaches the device.                                       *)
(***************************************************************************)
CeilBytes(bits) == IF bits % 8 = 0 THEN bits \div 8 ELSE bits \div 8 + 1

ExpectedSignature(k) ==
    CASE k.type = "PRKEY_RSA" -> CeilBytes(k.bits)
      [] k.type = "PRKEY_GOSTR3410" -> 2 * CeilBytes(k.bits)
      [] k.type \in {"PRKEY_EC", "PRKEY_EDDSA", "PRKEY_XEDDSA"} -> 2 * CeilBytes(k.bits)
      [] OTHER -> 0

\* The call came to the length test of line 642.
SignTested ==
    /\ last.op = "sign"
    /\ key.usage \cap {"SIGN", "SIGNRECOVER", "NONREPUDIATION"} # {}
    /\ format_senv(key, card) = SC_SUCCESS
    /\ key.type \in PrkeyTypes

HandlerAdds(added) ==
    /\ Len(added) <= 2
    /\ Len(added) = 2 => added[1].param_type = "TARGET_FILE" /\ added[2].param_type = "IV"

C34_Params ==
    envcall.fn = "sec_env_add_param" =>
      LET free == {i \in 1..SC_SEC_ENV_MAX_PARAMS : envcall.before[i].value = "NULL"}
      IN  /\ envcall.r \in {SC_SUCCESS, SC_ERROR_TOO_MANY_OBJECTS}
          /\ envcall.r = SC_ERROR_TOO_MANY_OBJECTS <=> free = {}
          /\ envcall.r = SC_ERROR_TOO_MANY_OBJECTS => senv.params = envcall.before
          /\ envcall.r = SC_SUCCESS =>
                \E i \in free :
                   /\ \A j \in free : i <= j
                   /\ senv.params[i] = envcall.p
                   /\ \A j \in 1..SC_SEC_ENV_MAX_PARAMS \ {i} :
                         senv.params[j] = envcall.before[j]
          /\ HandlerAdds(envcall.added) =>
                /\ \A i \in 1..Len(envcall.added) : senv.params[i] = envcall.added[i]
                /\ \A i \in (Len(envcall.added) + 1)..SC_SEC_ENV_MAX_PARAMS :
                      senv.params[i] = NoParam

\* The IV was added after the target file: both are in params, in that
\* order.
C34_Witness ==
    /\ envcall.fn = "sec_env_add_param"
    /\ envcall.r = SC_SUCCESS
    /\ envcall.added = <<[param_type |-> "TARGET_FILE", value |-> "target_file_id"],
                         [param_type |-> "IV", value |-> "param"]>>
    /\ senv.params[1].param_type = "TARGET_FILE"
    /\ senv.params[2].param_type = "IV"

(***************************************************************************)
(* C35.  A sc_pkcs15_decipher call that removed a PKCS#1 v1.5 padding: the *)
(* same call with any other result of the padding removal, valid or not,   *)
(* makes the same device interactions, calls the same helpers and writes   *)
(* the same log entries, and returns the result of the removal as it is.   *)
(***************************************************************************)
Stripped ==
    /\ last.op = "decipher"
    /\ \E i \in DOMAIN last.steps :
          last.steps[i] = "sc_pkcs1_strip_02_padding_constant_time"

C35_PaddingOblivious ==
    Stripped =>
      \A enc \in EncodingFlags(last.flags) :
        \A u \in use_key("sc_decipher", PrimBytes(last.len_in)) :
          (/\ enc.r = SC_SUCCESS
           /\ "RSA_PAD_PKCS1" \in enc.pad_flags
           /\ u.dev = last.dev
           /\ last.devr = {u.r}
           /\ u.r >= 0) =>
             \A strip \in StripResults(u.r) :
                LET run == sc_pkcs15_decipher(key, card, last.flags, "in",
                                              last.len_in, length, enc, u, strip)
                IN  /\ run.rv = strip
                    /\ run.dev = last.dev
                    /\ run.steps = last.steps
                    /\ run.buf = last.buf
                    /\ run.length = length
                    /\ last.rv \in StripResults(u.r)

\* A decipher whose block had no valid padding, after the primitive gave
\* MaxBufLen bytes.
C35_Witness ==
    /\ Stripped
    /\ last.rv = SC_ERROR_WRONG_PADDING
    /\ last.devr = {MaxBufLen}
    /\ last.dev[Len(last.dev) - 1] = "sc_decipher"


----------------------------------------------------------------------------
(***************************************************************************)
(* SpecRace: threads call C_Finalize, C_GetSlotList and C_WaitForSlotEvent *)
(* on a module that was initialized with a global mutex.  sc_pkcs11_lock   *)
(* (pkcs11-global.c:1009-1022) is taken in two steps, the tests of         *)
(* `context` and `global_lock` and the LockMutex call, and                 *)
(* sc_pkcs11_free_lock (1044-1063) in two steps, up to the unlock and the  *)
(* DestroyMutex call, so that other threads run in between.  C_GetSlotList *)
(* stands for the functions that lock, work and unlock at `out`            *)
(* (get_info_version, C_GetSlotInfo, C_GetMechanismList,                   *)
(* C_GetMechanismInfo, C_InitToken).  LockMutex on a destroyed mutex is    *)
(* undefined: it returns CKR_OK or fails for ever.                         *)
(***************************************************************************)
RaceFns == {"C_Finalize", "C_GetSlotList", "C_WaitForSlotEvent"}

\* return rv
RaceReturn(t, rv) ==
    /\ lk_pc' = [lk_pc EXCEPT ![t] = "idle"]
    /\ lk_fn' = [lk_fn EXCEPT ![t] = "none"]
    /\ lk_rv' = [lk_rv EXCEPT ![t] = rv]

\* goto where inside the same call
RaceGoto(t, where) ==
    /\ lk_pc' = [lk_pc EXCEPT ![t] = where]
    /\ UNCHANGED <<lk_fn, lk_rv>>

\* sc_pkcs11_unlock (lines 1024-1038): UnlockMutex(global_lock) unless
\* global_lock is NULL
RaceUnlock ==
    IF lk_global_lock
    THEN lk_mutex' = "unlocked" /\ lk_owner' = NoThread
    ELSE UNCHANGED <<lk_mutex, lk_owner>>

\* A thread enters a function with valid arguments: C_Finalize goes to its
\* own test of `context` (line 408), the others to sc_pkcs11_lock.
RaceCall(t) ==
    /\ lk_pc[t] = "idle"
    /\ \E f \in RaceFns :
         /\ lk_fn' = [lk_fn EXCEPT ![t] = f]
         /\ lk_pc' = [lk_pc EXCEPT ![t] = IF f = "C_Finalize" THEN "entry" ELSE "lock"]
    /\ lk_rv' = [lk_rv EXCEPT ![t] = "none"]
    /\ UNCHANGED <<lk_context, lk_lists, lk_global_lock, lk_mutex, lk_owner,
                   lk_in_finalize, lk_teardowns>>
    /\ UNCHANGED notRaceVars

\* C_Finalize, lines 408-409
RaceFinEntry(t) ==
    /\ lk_pc[t] = "entry"
    /\ IF lk_context
       THEN RaceGoto(t, "lock")
       ELSE RaceReturn(t, "CKR_CRYPTOKI_NOT_INITIALIZED")
    /\ UNCHANGED <<lk_context, lk_lists, lk_global_lock, lk_mutex, lk_owner,
                   lk_in_finalize, lk_teardowns>>
    /\ UNCHANGED notRaceVars

\* Where a call goes on after sc_pkcs11_lock returned CKR_OK.
AfterLock(t) == IF lk_fn[t] = "C_Finalize" THEN "fin" ELSE "cs"

\* sc_pkcs11_lock, lines 1011-1014: the tests of `context` and `global_lock`
RaceLockTest(t) ==
    /\ lk_pc[t] = "lock"
    /\ IF ~lk_context
       THEN RaceReturn(t, "CKR_CRYPTOKI_NOT_INITIALIZED")
       ELSE IF ~lk_global_lock
       THEN RaceGoto(t, AfterLock(t))
       ELSE RaceGoto(t, "wait")
    /\ UNCHANGED <<lk_context, lk_lists, lk_global_lock, lk_mutex, lk_owner,
                   lk_in_finalize, lk_teardowns>>
    /\ UNCHANGED notRaceVars

\* sc_pkcs11_lock, lines 1015-1021: LockMutex returns once the mutex is free
RaceLockMutex(t) ==
    /\ lk_pc[t] = "wait"
    /\ lk_mutex = "unlocked"
    /\ lk_mutex' = "locked"
    /\ lk_owner' = t
    /\ RaceGoto(t, AfterLock(t))
    /\ UNCHANGED <<lk_context, lk_lists, lk_global_lock, lk_in_finalize, lk_teardowns>>
    /\ UNCHANGED notRaceVars

\* LockMutex on the destroyed mutex: it returns CKR_OK, or it fails and the
\* loop of line 1016 never ends.
RaceLockDestroyed(t) ==
    /\ lk_pc[t] = "wait"
    /\ lk_mutex = "destroyed"
    /\ \E ok \in BOOLEAN : RaceGoto(t, IF ok THEN AfterLock(t) ELSE "spin")
    /\ UNCHANGED <<lk_context, lk_lists, lk_global_lock, lk_mutex, lk_owner,
                   lk_in_finalize, lk_teardowns>>
    /\ UNCHANGED notRaceVars

\* C_GetSlotList under the lock, then `out': sc_pkcs11_unlock and return
\* (lines 514-585).
RaceApiOut(t) ==
    /\ lk_pc[t] = "cs"
    /\ lk_fn[t] = "C_GetSlotList"
    /\ RaceUnlock
    /\ \E rv \in {"CKR_OK", "CKR_BUFFER_TOO_SMALL"} : RaceReturn(t, rv)
    /\ UNCHANGED <<lk_context, lk_lists, lk_global_lock, lk_in_finalize, lk_teardowns>>
    /\ UNCHANGED notRaceVars

\* C_WaitForSlotEvent under the lock (lines 816-821, 834-857):
\* slot_find_changed found a slot, the call must not block or the wait
\* failed, and the call unlocks and returns at `out'; or it unlocks and
\* waits (lines 823-826).
RaceWaitFind(t) ==
    /\ lk_pc[t] = "cs"
    /\ lk_fn[t] = "C_WaitForSlotEvent"
    /\ RaceUnlock
    /\ \E x \in {"CKR_OK", "CKR_NO_EVENT", "again"} :
         IF x = "again" THEN RaceGoto(t, "W_wait") ELSE RaceReturn(t, x)
    /\ UNCHANGED <<lk_context, lk_lists, lk_global_lock, lk_in_finalize, lk_teardowns>>
    /\ UNCHANGED notRaceVars

\* sc_wait_for_event returns (lines 826-832): with in_finalize set the call
\* returns, else it calls sc_pkcs11_lock again.
RaceWaitWake(t) ==
    /\ lk_pc[t] = "W_wait"
    /\ IF lk_in_finalize
       THEN RaceReturn(t, "CKR_CRYPTOKI_NOT_INITIALIZED")
       ELSE RaceGoto(t, "lock")
    /\ UNCHANGED <<lk_context, lk_lists, lk_global_lock, lk_mutex, lk_owner,
                   lk_in_finalize, lk_teardowns>>
    /\ UNCHANGED notRaceVars

\* C_Finalize, lines 415-436: in_finalize, sc_cancel, the sessions and the
\* slots are freed and their lists destroyed, the context is released.
RaceTeardown(t) ==
    /\ lk_pc[t] = "fin"
    /\ lk_in_finalize' = TRUE
    /\ lk_lists' = "destroyed"
    /\ lk_context' = FALSE
    /\ lk_teardowns' = lk_teardowns + 1
    /\ RaceGoto(t, "free")
    /\ UNCHANGED <<lk_global_lock, lk_mutex, lk_owner>>
    /\ UNCHANGED notRaceVars

\* sc_pkcs11_free_lock, lines 1048-1058: nothing without a global_lock; else
\* global_lock = NULL and the mutex is unlocked.
RaceFreeLock(t) ==
    /\ lk_pc[t] = "free"
    /\ IF lk_global_lock
       THEN /\ lk_global_lock' = FALSE
            /\ lk_mutex' = "unlocked"
            /\ lk_owner' = NoThread
            /\ RaceGoto(t, "destroy")
       ELSE /\ UNCHANGED <<lk_global_lock, lk_mutex, lk_owner>>
            /\ RaceReturn(t, "CKR_OK")
    /\ UNCHANGED <<lk_context, lk_lists, lk_in_finalize, lk_teardowns>>
    /\ UNCHANGED notRaceVars

\* sc_pkcs11_free_lock, lines 1060-1062: DestroyMutex; C_Finalize returns.
RaceDestroyMutex(t) ==
    /\ lk_pc[t] = "destroy"
    /\ lk_mutex' = "destroyed"
    /\ RaceReturn(t, "CKR_OK")
    /\ UNCHANGED <<lk_context, lk_lists, lk_global_lock, lk_owner, lk_in_finalize,
                   lk_teardowns>>
    /\ UNCHANGED notRaceVars

RaceInit ==
    /\ RaceIdle
    /\ KeyIdle
    /\ ModLoaded
    /\ OpIdle
    /\ SlotsIdle
    /\ InfoIdle
    /\ TokIdle
    /\ FileIdle
    /\ EnvIdle

RaceNext ==
    \E t \in Threads :
        \/ RaceCall(t)
        \/ RaceFinEntry(t)
        \/ RaceLockTest(t)
        \/ RaceLockMutex(t)
        \/ RaceLockDestroyed(t)
        \/ RaceApiOut(t)
        \/ RaceWaitFind(t)
        \/ RaceWaitWake(t)
        \/ RaceTeardown(t)
        \/ RaceFreeLock(t)
        \/ RaceDestroyMutex(t)

SpecRace == RaceInit /\ [][RaceNext]_vars

(***************************************************************************)
(* C36.  A thread that is inside the critical section of C_GetSlotList or  *)
(* C_WaitForSlotEvent, after sc_pkcs11_lock returned CKR_OK, finds the     *)
(* module initialized: context is non-NULL, the session and slot lists are *)
(* not destroyed and the global mutex is not destroyed.                    *)
(***************************************************************************)
InCriticalSection(t) == lk_pc[t] = "cs"

C36_InitializedInside ==
    \A t \in Threads :
       InCriticalSection(t) =>
          /\ lk_context
          /\ lk_lists = "live"
          /\ lk_mutex # "destroyed"

(***************************************************************************)
(* C37.  Of two concurrent C_Finalize calls one runs the teardown (lines   *)
(* 415-436); the other frees nothing a second time, and does not lock or   *)
(* spin on the destroyed mutex.                                            *)
(***************************************************************************)
InFinalize(t) == lk_fn[t] = "C_Finalize"

C37_OneTeardown ==
    /\ lk_teardowns <= 1
    /\ \A t \in Threads :
          InFinalize(t) =>
             /\ lk_pc[t] # "spin"
             /\ lk_pc[t] = "fin" => lk_lists = "live" /\ lk_context
             /\ lk_pc[t] = "wait" => lk_mutex # "destroyed"

(***************************************************************************)
(* C38.  A call that has returned holds the global mutex no more, and a    *)
(* thread blocked in the event wait of C_WaitForSlotEvent does not hold    *)
(* it: every LockMutex of a call is followed by its UnlockMutex before the *)
(* call returns or waits.                                                  *)
(***************************************************************************)
Outside(t) == lk_pc[t] \in {"idle", "W_wait"}

C38_Released == \A t \in Threads : Outside(t) => lk_owner # t

\* The pairing holds as long as no C_Finalize has torn the module down.
C38_ReleasedBeforeFinalize == lk_teardowns = 0 => C38_Released
-----------------------------------------------------------------------------
(***************************************************************************)
(* The failed re-validation (pkcs15-sec.c, use_key lines 159-169,          *)
(* encrypt_sym lines 871-877, decrypt_sym lines 958-964).                  *)
(***************************************************************************)

\* The call recorded for thread t re-validated the cached PIN and the
\* re-validation failed.
RevalFailed(t) ==
    /\ log[t] # <<>>
    /\ log[t][1] \in {"use_key"} \cup SymFns
    /\ Count(log[t], "reval") >= 1
    /\ revalres[t] < 0

\* C39: in use_key and in the symmetric handlers, once the re-validation that
\* follows a security-status-not-satisfied pass has failed, that pass stays
\* the only one of the call and the primitive was invoked at most once; the
\* call returns the error code of the re-validation, never success; and
\* use_key has released the device lock as its last interaction.
C39_RevalFails ==
    \A t \in Threads :
        RevalFailed(t) =>
            /\ passres[t] = <<SSNS>>
            /\ Count(log[t], "reval") = 1
            /\ Count(log[t], "prim") <= 1
            /\ log[t][1] = "use_key" =>
                /\ Count(log[t], "pass") = 1
                /\ pc[t] \in {"unlock", "idle"}
            /\ log[t][1] \in SymFns => pc[t] = "idle"
            /\ pc[t] = "idle" =>
                /\ ret[t] = revalres[t]
                /\ ret[t] < 0
                /\ ret[t] # SC_SUCCESS
                /\ log[t][1] = "use_key" =>
                    /\ card_lock # t
                    /\ Count(log[t], "unlock") = 1
                    /\ log[t][Len(log[t])] = "unlock"

\* C39 witness: a use_key call whose only pass reached the primitive and
\* ended with security-status-not-satisfied, whose re-validation failed with
\* another error, and which returned that error with the lock released.
C39_Witness ==
    \E t \in Threads :
        /\ LastCall(t, "use_key")
        /\ RevalFailed(t)
        /\ passres[t] = <<SSNS>>
        /\ Count(log[t], "prim") = 1
        /\ revalres[t] = SC_ERROR_CARD_CMD_FAILED
        /\ ret[t] = SC_ERROR_CARD_CMD_FAILED
        /\ card_lock = NoThread

\* The same for a symmetric handler.
C39_SymWitness ==
    \E t \in Threads :
        /\ pc[t] = "idle"
        /\ RevalFailed(t)
        /\ log[t][1] \in SymFns
        /\ Count(log[t], "prim") = 1
        /\ revalres[t] = SC_ERROR_CARD_CMD_FAILED
        /\ ret[t] = SC_ERROR_CARD_CMD_FAILED

-----------------------------------------------------------------------------
(***************************************************************************)
(* The seen flag (pkcs11-global.c, C_GetSlotList lines 540-577, C_Finalize *)
(* lines 428-433).                                                         *)
(***************************************************************************)

\* The slots of sl that carry SC_PKCS11_SLOT_FLAG_SEEN.
SeenIn(sl) == {i \in DOMAIN sl : sl[i].seen}

\* After a C_GetSlotList that ran its loop, whatever its arguments and its
\* answer, every slot it put into found[] carries the seen flag, and a call
\* without presence filter put every slot into found[] that carried the flag
\* when the loop began.
C40_Marked ==
    ListWalked =>
        /\ Found \subseteq SeenIn(slotlist)
        /\ SeenIn(listed.at) \subseteq SeenIn(slotlist)
        /\ ~listed.filter => SeenIn(listed.at) \subseteq Found

\* A step of the module keeps every seen flag, unless it is the C_Finalize
\* that destroys the slots; a C_GetSlotList without presence filter that ran
\* its loop lists every slot that carried the flag before the call.
C40_Kept ==
    \A i \in SeenIn(slotlist) :
        \/ listed'.op = "C_Finalize" /\ slotlist' = <<>>
        \/ /\ i \in SeenIn(slotlist')
           /\ (/\ listed'.op = "C_GetSlotList"
               /\ listed'.rv \in {"CKR_OK", "CKR_BUFFER_TOO_SMALL"}
               /\ listed'.at # <<>>
               /\ ~listed'.filter) => i \in Range(listed'.found)

\* C40: C_GetSlotList sets the seen flag on every slot it selects, also on a
\* size inquiry, on a call that fails with buffer-too-small and on a call
\* with the presence filter; no operation but the C_Finalize that destroys
\* the slots clears a seen flag, and every C_GetSlotList without presence
\* filter lists all slots that carry it, so its list only grows.
C40_SeenKept == []C40_Marked /\ [][C40_Kept]_vars

\* C40 witness: a call with the presence filter and too small a buffer has
\* put the seen flag on a slot that did not carry it.
C40_Witness ==
    /\ listed.op = "C_GetSlotList"
    /\ listed.rv = "CKR_BUFFER_TOO_SMALL"
    /\ listed.filter
    /\ \E i \in Found : ~listed.at[i].seen /\ slotlist[i].seen

\* The same for a size inquiry with the presence filter.
C40_SizeWitness ==
    /\ listed.op = "C_GetSlotList"
    /\ listed.rv = "CKR_OK" /\ listed.sizeonly
    /\ listed.filter
    /\ \E i \in Found : ~listed.at[i].seen /\ slotlist[i].seen

====
